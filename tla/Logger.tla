------------------------------- MODULE Logger --------------------------------
(***************************************************************************)
(* log::Logger (include/framework/Log.hpp, src/framework/Log.cpp) as one   *)
(* thread sees it: the output engine (logfile or console), the volumes of  *)
(* the logfile and the rotation from one volume to the next.  The calls    *)
(* are whole steps here.                                                   *)
(*                                                                         *)
(* A logfile name is a pair <<base, volume>>; what a file holds is its     *)
(* number of lines.  Lines written through fd stay in its buffer until it  *)
(* overflows, is flushed or the file is closed, and getFileLines, which    *)
(* opens the file anew, does not see them before that.                     *)
(***************************************************************************)
EXTENDS Integers, FiniteSets, FiniteSetsExt

CONSTANTS Bases,        \* what logfile names begin with
          DefaultBase,  \* "program"
          Unwritable,   \* the files that cannot be opened for writing
          Unreadable,   \* the files that exist and cannot be opened for reading
          Limits,       \* the values given to SetLogFileRecordsLimit
          DefaultLimit, \* the initial value of recordsLimit
          MaxVolume,    \* bound: the volumes of a logfile
          MaxLines,     \* bound: the lines of a file
          NoFile        \* fd when it is closed

Files   == Bases \X (1 .. MaxVolume)
Missing == -1

ASSUME LoggerAssumption ==
  /\ MaxVolume \in Nat \ {0} /\ MaxLines \in Nat
  /\ DefaultBase \in Bases
  /\ Unwritable \subseteq Files \ {<<DefaultBase, 1>>}
  /\ Unreadable \subseteq Files
  /\ Limits \subseteq Nat /\ DefaultLimit \in Limits
  /\ NoFile \notin Files

VARIABLES
  log,      \* the Logger object
  disk,     \* the lines of every file that readers of the file see
  failed    \* history: has a write to the logfile failed?

vars == <<log, disk, failed>>

(* out is connected to fd's buffer, to std::clog or to the standard output *)
(* that it had before the Logger was constructed (defaultIO).              *)
TypeOK ==
  /\ log \in [fd : Files \cup {NoFile}, out : {"fd", "clog", "stdout"}, logFileName : Files,
              recordsLimit : Limits, currentRecords : 0 .. MaxLines, unflushed : 0 .. MaxLines + 1]
  /\ log.fd = NoFile => log.unflushed = 0
  /\ disk \in [Files -> Missing .. MaxLines + 1]
  /\ failed \in BOOLEAN

(* The constructor truncates the default logfile and connects out to it.   *)
Init ==
  /\ log = [fd |-> <<DefaultBase, 1>>, out |-> "fd", logFileName |-> <<DefaultBase, 1>>,
            recordsLimit |-> DefaultLimit, currentRecords |-> 0, unflushed |-> 0]
  /\ disk = [f \in Files |-> IF f = <<DefaultBase, 1>> THEN 0 ELSE IF f \in Unreadable THEN 1 ELSE Missing]
  /\ failed = FALSE

-----------------------------------------------------------------------------
(* Steps of the calls, on a state s = [log, disk].                         *)
State == [log |-> log, disk |-> disk]
Becomes(s) == log' = s.log /\ disk' = s.disk

(* checkFileExistence and getFileLines: a file that cannot be read looks   *)
(* like one that does not exist.                                           *)
Exists(s, f)  == s.disk[f] # Missing /\ f \notin Unreadable
Entries(s, f) == IF Exists(s, f) THEN s.disk[f] ELSE 0

(* CommonLogger: a line for the engine, counted by nobody.                 *)
CommonLogger(s) ==
  IF s.log.out = "fd" THEN [s EXCEPT !.log.unflushed = @ + 1] ELSE s

Close(s) ==
  IF s.log.fd = NoFile THEN s
  ELSE [s EXCEPT !.disk[s.log.fd] = @ + s.log.unflushed, !.log.fd = NoFile, !.log.unflushed = 0]

(* Mutant: opening truncates.                                              *)
CreateTruncates(s, f) == [s EXCEPT !.disk[f] = 0]

(* Opening for appending creates the file.                                 *)
Create(s, f) == [s EXCEPT !.disk[f] = IF @ = Missing THEN 0 ELSE @]
Open(s, f) ==
  LET c == Create(s, f) IN [c EXCEPT !.log.fd = f, !.log.out = "fd"]

(* Announce the new file in the old one, close it, continue in the new.    *)
MoveTo(s, f) ==
  LET c == Open(Close(CommonLogger(s)), f)
  IN  [c EXCEPT !.log.logFileName = f, !.log.currentRecords = Entries(s, f)]

(* The do-while loop: the first later volume that is missing or has room.  *)
Room(s) ==
  {v \in s.log.logFileName[2] + 1 .. MaxVolume :
     LET f == <<s.log.logFileName[1], v>>
     IN  ~Exists(s, f) \/ Entries(s, f) < s.log.recordsLimit}
NextVolume(s) == <<s.log.logFileName[1], Min(Room(s))>>

ChangeVolumeFails(s) == s.log.fd # NoFile /\ NextVolume(s) \in Unwritable

(* With the console engine only the name changes; the old logfile gets a   *)
(* notice without a newline, which creates it if need be.                  *)
ChangeVolume(s) ==
  IF ChangeVolumeFails(s) THEN CommonLogger(s)
  ELSE IF s.log.fd # NoFile THEN MoveTo(s, NextVolume(s))
  ELSE LET c == IF s.log.logFileName \in Unwritable THEN s ELSE Create(s, s.log.logFileName)
       IN  [c EXCEPT !.log.logFileName = NextVolume(s),
                     !.log.currentRecords = Entries(s, NextVolume(s))]

(* Bound: the current logfile takes one more line.                         *)
RoomToLog == disk[log.logFileName] + log.unflushed < MaxLines

(* The loop in ChangeVolume finds a volume within the model's bounds.      *)
CanRotate(s) == Room(s) # {}

-----------------------------------------------------------------------------
(* Push, with the logfile engine on; a record for the console or below the *)
(* log level changes nothing.                                              *)
Counted(s) == [s EXCEPT !.log.currentRecords = @ + 1]
Full(s) == s.log.currentRecords >= s.log.recordsLimit

PushCounted(s) ==
  IF Full(Counted(s))
  THEN CanRotate(Counted(s)) /\ Becomes(ChangeVolume(Counted(s)))
  ELSE Becomes(Counted(s))

Push ==
  /\ log.fd # NoFile
  /\ RoomToLog /\ log.currentRecords < MaxLines
  /\ PushCounted(CommonLogger(State))
  /\ UNCHANGED failed

(* Writing the prefix throws: back to the standard output, and the logfile *)
(* is closed with as much of its buffer as can still be written.           *)
PushPrefixFails ==
  /\ log.out = "fd"
  /\ \E kept \in 0 .. log.unflushed :
       Becomes(Close([State EXCEPT !.log.out = "stdout", !.log.unflushed = kept]))

(* Writing the message throws: CommonLogger handles it itself, so that fd  *)
(* stays open and the record is counted.                                   *)
PushMessageFails ==
  /\ log.out = "fd"
  /\ log.currentRecords < MaxLines
  /\ PushCounted([State EXCEPT !.log.out = "stdout"])

(* Flushing out before another file takes over throws: nothing changes but *)
(* that this file may just have been created, and CommonLogger, which      *)
(* reports it, fails on the same buffer.                                   *)
Broken(s) == \E kept \in 0 .. s.log.unflushed :
               Becomes([s EXCEPT !.log.out = "stdout", !.log.unflushed = kept])

PushRotateFails ==
  LET s == Counted(CommonLogger(State))
  IN  /\ log.out = "fd"
      /\ RoomToLog /\ log.currentRecords < MaxLines
      /\ Full(s) /\ CanRotate(s) /\ NextVolume(s) \notin Unwritable
      /\ Broken(Create(s, NextVolume(s)))

(* Mutant: a limit that is reached already does not rotate.                *)
SetLimitOnly(limit) == Becomes([State EXCEPT !.log.recordsLimit = limit])

SetLogFileRecordsLimit(limit) ==
  LET s == [State EXCEPT !.log.recordsLimit = limit]
  IN  IF ~Full(s)
      THEN Becomes(s)
      ELSE /\ CanRotate(s)
           /\ Becomes([ChangeVolume(s) EXCEPT !.log.recordsLimit =
                         IF ChangeVolumeFails(s) THEN log.recordsLimit ELSE @])

(* ChangeLogFileName goes back to the logfile engine first, and stays      *)
(* there whatever happens next.                                            *)
Reopened == IF log.fd = NoFile THEN Open(State, log.logFileName) ELSE State

ChangeLogFileNameReopenFails(path) ==
  /\ log.fd = NoFile
  /\ log.logFileName \in Unwritable
  /\ Becomes(CommonLogger(State))

(* Mutant: the old name is not restored.                                   *)
ChangeLogFileNameFullForgets(path) ==
  LET s == [Reopened EXCEPT !.log.logFileName = path]
  IN  /\ log.fd = NoFile => log.logFileName \notin Unwritable
      /\ Exists(Reopened, path) /\ Entries(Reopened, path) >= log.recordsLimit
      /\ CanRotate(s)
      /\ Becomes(ChangeVolume(s))

(* The file has no room: continue with its next volume.  When that fails   *)
(* the old name is restored, and the call returns TRUE all the same.       *)
ChangeLogFileNameFull(path) ==
  LET s == [Reopened EXCEPT !.log.logFileName = path]
      c == ChangeVolume(s)
  IN  /\ log.fd = NoFile => log.logFileName \notin Unwritable
      /\ Exists(Reopened, path) /\ Entries(Reopened, path) >= log.recordsLimit
      /\ CanRotate(s)
      /\ Becomes(IF ChangeVolumeFails(s) THEN [c EXCEPT !.log.logFileName = log.logFileName] ELSE c)

(* The file is new or has room.                                            *)
ChangeLogFileName(path) ==
  /\ log.fd = NoFile => log.logFileName \notin Unwritable
  /\ ~Exists(Reopened, path) \/ Entries(Reopened, path) < log.recordsLimit
  /\ Becomes(IF path \in Unwritable THEN CommonLogger(Reopened) ELSE MoveTo(Reopened, path))

(* Mutant: the logfile is closed under out.                                *)
SwitchToConsoleKeepsOut ==
  /\ log.fd # NoFile
  /\ Becomes(Close(State))

SwitchToConsole ==
  /\ log.fd # NoFile
  /\ Becomes([Close(State) EXCEPT !.log.out = "clog"])

(* The flush in SwitchLoggingEngine throws, or that in                     *)
(* SetLogFileRecordsLimit or ChangeLogFileName, which have opened a file.  *)
FlushFails ==
  /\ log.fd = NoFile => log.logFileName \notin Unwritable
  /\ Reopened.log.out = "fd"
  /\ \E s \in {Reopened} \cup {Create(Reopened, f) : f \in Files \ Unwritable} : Broken(s)

SwitchToLogfile ==
  /\ log.fd = NoFile
  /\ Becomes(IF log.logFileName \in Unwritable THEN [State EXCEPT !.log.out = "clog"]
             ELSE Open(State, log.logFileName))

(* The stream's buffer overflows, or unbuffered mode flushes it.           *)
Flush ==
  /\ log.fd # NoFile /\ log.unflushed > 0
  /\ Becomes([State EXCEPT !.disk[log.fd] = @ + log.unflushed, !.log.unflushed = 0])

-----------------------------------------------------------------------------
(* The calls in which nothing fails that the code does not check itself.   *)
NextButPush ==
  /\ \/ Flush \/ SwitchToConsole \/ SwitchToLogfile
     \/ /\ RoomToLog
        /\ \/ \E limit \in Limits : SetLogFileRecordsLimit(limit)
           \/ \E path \in Files :
                \/ ChangeLogFileNameReopenFails(path)
                \/ ChangeLogFileNameFull(path) \/ ChangeLogFileName(path)
  /\ UNCHANGED failed

WriteFails ==
  /\ PushPrefixFails \/ PushMessageFails \/ PushRotateFails \/ FlushFails
  /\ failed' = TRUE

Next == Push \/ NextButPush \/ WriteFails

Spec == Init /\ [][Next]_vars

-----------------------------------------------------------------------------
(* Properties                                                              *)

(* An open logfile is the one that logFileName names: a change of name     *)
(* that fails half-way is undone completely (Log.cpp:162-227, 291-295).    *)
FdIsNamedFile == log.fd # NoFile => log.fd = log.logFileName

(* A full volume is left at once, unless the next one cannot be opened or  *)
(* writing to it has failed (Log.cpp:160-227, Log.hpp:360).                *)
RotatesInTime ==
  ~failed /\ log.fd # NoFile /\ log.recordsLimit > 0 /\ Full(State) /\ CanRotate(State) =>
    NextVolume(State) \in Unwritable

(* After its construction the Logger never truncates a file.               *)
NothingTruncated == [][\A f \in Files : disk'[f] >= disk[f]]_vars

(* "Allow two types of logger engine: logfile-oriented and                 *)
(* console-oriented" (Log.hpp:155): out points into fd exactly while the   *)
(* logfile is open, through every failing open, and never into a closed    *)
(* file.  A failed write is a third case: it sends out back to defaultIO.  *)
OutFollowsEngine ==
  log.out # "stdout" => ((log.out = "fd") <=> (log.fd # NoFile))
=============================================================================
