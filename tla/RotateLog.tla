----------------------------- MODULE RotateLog -----------------------------
(***************************************************************************)
(* The log files (RotateLogFile, utils/log.h and log.cpp): a record goes   *)
(* to the base file; when that has reached its limit it is closed, and the *)
(* next write renames base to base.1, base.1 to base.2 and so on.          *)
(*                                                                         *)
(* InnoLog calls write() from the worker of the asynchronous log, or, when *)
(* that is not running, from every thread that logs; mutex_ is never       *)
(* locked.  A step is a system call with the tests that follow it.  The    *)
(* program may end at any point and start again over the files it left.    *)
(***************************************************************************)
EXTENDS Integers, Sequences, FiniteSets

CONSTANTS
  Writers,
  rotate_file_number,
  SizeLimit,        (* rotate_file_size_limit_, in records                   *)
  MaxRecords,       (* bound: records that are logged                        *)
  MaxRestarts,      (* bound: restarts of the program                        *)
  NoFile

RotateAssumption ==
  /\ {rotate_file_number, SizeLimit} \subseteq Nat \ {0}
  /\ {MaxRecords, MaxRestarts} \subseteq Nat /\ NoFile \notin Nat

FileNames == 0 .. rotate_file_number   (* base is 0, base.i is i             *)
Fds       == 0 .. Cardinality(Writers)

VARIABLES
  log_file_fd, current_file_size,
  name,             (* the file of each name, or NoFile                        *)
  content,          (* of each file: the records in it                       *)
  fds,              (* the file each open descriptor stands for, or NoFile     *)
  at,               (* where each thread is in write()                       *)
  fd, dst,          (* local variables of log_rotate_()                      *)
  restarts,
  (* History: the record each thread writes, the number of records, and     *)
  (* those that were written, in order                                      *)
  record, logged, written

locals     == <<fd, dst>>
files      == <<name, content>>
rotateVars == <<log_file_fd, current_file_size, files, fds, at, locals, restarts, record, logged,
                written>>

Idle == [t \in Writers |-> "idle"]

RotateInit ==
  /\ log_file_fd = -1 /\ current_file_size = 0
  /\ name = [i \in FileNames |-> NoFile] /\ content = <<>> /\ fds = [n \in Fds |-> NoFile]
  /\ at = Idle /\ fd = [t \in Writers |-> -1] /\ dst = [t \in Writers |-> 0]
  /\ restarts = 0
  /\ record = [t \in Writers |-> 0] /\ logged = 0 /\ written = <<>>

-----------------------------------------------------------------------------
Go(t, step) == at' = [at EXCEPT ![t] = step]

(* open() takes the lowest descriptor, and creates the base file if there  *)
(* is none.                                                                *)
LowestFd == CHOOSE n \in Fds : fds[n] = NoFile /\ \A m \in 0 .. (n - 1) : fds[m] # NoFile

OpenBase(t) ==
  /\ name' = IF name[0] = NoFile THEN [name EXCEPT ![0] = Len(content) + 1] ELSE name
  /\ fds' = [fds EXCEPT ![LowestFd] = name'[0]]
  /\ fd' = [fd EXCEPT ![t] = LowestFd]

UseFile(t, size) == current_file_size' = size /\ log_file_fd' = fd'[t] /\ Go(t, "writev")

Write(t) ==
  /\ at[t] = "idle" /\ logged < MaxRecords
  /\ logged' = logged + 1 /\ record' = [record EXCEPT ![t] = logged + 1]
  /\ Go(t, IF log_file_fd < 0 THEN "open" ELSE "writev")
  /\ UNCHANGED <<log_file_fd, current_file_size, files, fds, locals, restarts, written>>

(* log_rotate_(): the base file is used on if it has room, as after a      *)
(* restart.                                                                *)
Open(t) ==
  /\ at[t] = "open"
  /\ IF log_file_fd >= 0 THEN Go(t, "writev") /\ UNCHANGED <<files, fds, fd>>
     ELSE /\ OpenBase(t) /\ Go(t, "lseek")
          /\ content' = IF name[0] = NoFile THEN Append(content, <<>>) ELSE content
  /\ UNCHANGED <<log_file_fd, current_file_size, dst, restarts, record, logged, written>>

Lseek(t) ==
  /\ at[t] = "lseek" /\ UNCHANGED fd
  /\ LET size == Len(content[fds[fd[t]]])
     IN  IF size < SizeLimit THEN UseFile(t, size) /\ UNCHANGED <<fds, dst>>
         ELSE /\ fds' = [fds EXCEPT ![fd[t]] = NoFile] /\ Go(t, "rename")
              /\ dst' = [dst EXCEPT ![t] = rotate_file_number]
              /\ UNCHANGED <<log_file_fd, current_file_size>>
  /\ UNCHANGED <<files, restarts, record, logged, written>>

(* The loop over dst: the highest number is removed, every other name goes *)
(* to the file of the name before it, which a missing file leaves alone.   *)
Renamed(d) ==
  IF d = rotate_file_number THEN [name EXCEPT ![d] = NoFile]
  ELSE IF name[d - 1] = NoFile THEN name
  ELSE [name EXCEPT ![d] = name[d - 1], ![d - 1] = NoFile]

(* Mutant of NextName: the loop counts up.                                 *)
Upwards(d)  == IF d = rotate_file_number THEN 1 ELSE IF d + 1 = rotate_file_number THEN 0 ELSE d + 1
NextName(d) == d - 1

Rename(t) ==
  /\ at[t] = "rename"
  /\ name' = Renamed(dst[t]) /\ dst' = [dst EXCEPT ![t] = NextName(dst[t])]
  /\ Go(t, IF NextName(dst[t]) > 0 THEN "rename" ELSE "truncate")
  /\ UNCHANGED <<log_file_fd, current_file_size, content, fds, fd, restarts, record, logged, written>>

Truncate(t) ==
  /\ at[t] = "truncate" /\ OpenBase(t) /\ UseFile(t, 0)
  /\ content' = IF name[0] = NoFile THEN Append(content, <<>>) ELSE [content EXCEPT ![name[0]] = <<>>]
  /\ UNCHANGED <<dst, restarts, record, logged, written>>

(* The rest of write().  A record that cannot be written is gone.          *)
Writev(t) ==
  /\ at[t] = "writev"
  /\ IF log_file_fd < 0 \/ fds[log_file_fd] = NoFile
     THEN Go(t, "idle") /\ UNCHANGED <<content, written>>
     ELSE /\ content' = [content EXCEPT ![fds[log_file_fd]] = Append(@, record[t])]
          /\ written' = Append(written, record[t]) /\ Go(t, "count")
  /\ UNCHANGED <<log_file_fd, current_file_size, name, fds, locals, restarts, record, logged>>

Count(t) ==
  /\ at[t] = "count"
  /\ current_file_size' = current_file_size + 1
  /\ Go(t, IF current_file_size' >= SizeLimit THEN "close" ELSE "idle")
  /\ UNCHANGED <<log_file_fd, files, fds, locals, restarts, record, logged, written>>

Close(t) ==
  /\ at[t] = "close" /\ Go(t, "reset")
  /\ fds' = IF log_file_fd < 0 THEN fds ELSE [fds EXCEPT ![log_file_fd] = NoFile]
  /\ UNCHANGED <<log_file_fd, current_file_size, files, locals, restarts, record, logged, written>>

Reset(t) ==
  /\ at[t] = "reset" /\ Go(t, "idle")
  /\ log_file_fd' = -1 /\ current_file_size' = 0
  /\ UNCHANGED <<files, fds, locals, restarts, record, logged, written>>

Restart ==
  /\ restarts < MaxRestarts /\ restarts' = restarts + 1
  /\ log_file_fd' = -1 /\ current_file_size' = 0 /\ at' = Idle
  /\ fds' = [n \in Fds |-> NoFile]
  /\ UNCHANGED <<files, locals, record, logged, written>>

RotateNext ==
  \/ \E t \in Writers : \/ Write(t) \/ Open(t) \/ Lseek(t) \/ Rename(t) \/ Truncate(t)
                        \/ Writev(t) \/ Count(t) \/ Close(t) \/ Reset(t)
  \/ Restart

RotateSpec == RotateInit /\ [][RotateNext]_rotateVars

-----------------------------------------------------------------------------
Steps == {"idle", "open", "lseek", "rename", "truncate", "writev", "count", "close", "reset"}

RotateTypes ==
  /\ log_file_fd \in {-1} \cup Fds /\ current_file_size \in Nat
  /\ name \in [FileNames -> Nat \cup {NoFile}] /\ fds \in [Fds -> Nat \cup {NoFile}]
  /\ content \in Seq(Seq(Nat)) /\ at \in [Writers -> Steps]
  /\ dst \in [Writers -> FileNames] /\ fd \in [Writers -> {-1} \cup Fds]

Of(i) == IF name[i] = NoFile THEN <<>> ELSE content[name[i]]

InFiles == UNION {{Of(i)[k] : k \in DOMAIN Of(i)} : i \in FileNames}

(* Rotation removes the oldest records only: as many of the newest as all  *)
(* files but base can take are in the files, less one file for each time   *)
(* the program has ended, as it may have ended between two renames.        *)
OldestRemoved ==
  LET kept   == (rotate_file_number - 1 - restarts) * SizeLimit
      newest == {written[i] : i \in {j \in DOMAIN written : Len(written) - j < kept}}
  IN  newest \subseteq InFiles

(* Wherever the program ends: only the oldest records are removed, and     *)
(* none from between the others; the files have records in the order in    *)
(* which they were written, from the highest number down to base; and no   *)
(* file grows beyond its limit.                                            *)
NewestRecordsKept ==
  LET Precedes(r, s) == \E i, j \in DOMAIN written : i < j /\ written[i] = r /\ written[j] = s
  IN  /\ OldestRemoved
      /\ \E removed \in 0 .. Len(written) :
           InFiles = {written[i] : i \in (removed + 1) .. Len(written)}
      /\ \A i \in FileNames : Len(Of(i)) <= SizeLimit
      /\ \A i, j \in FileNames : \A k \in DOMAIN Of(i), l \in DOMAIN Of(j) :
           i > j \/ (i = j /\ k < l) => Precedes(Of(i)[k], Of(j)[l])
=============================================================================
