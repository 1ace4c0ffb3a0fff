---------------------------- MODULE LoggerProofs -----------------------------
(***************************************************************************)
(* Theorems about Logger for any logfile names, files that cannot be       *)
(* opened, limits, volumes and lengths of files.                           *)
(***************************************************************************)
EXTENDS Logger, WellFoundedInduction, TLAPS

(* As much of the types as the lemmas need.                                *)
Logs ==
  [fd : Files \cup {NoFile}, out : {"fd", "clog", "stdout"}, logFileName : Files,
   recordsLimit : Nat, currentRecords : Nat, unflushed : Nat]
Disks  == [Files -> Nat \cup {Missing}]
States == [log : Logs, disk : Disks]

(* No file of t has less than in s; and only g has something else.         *)
Grows(s, t)      == \A f \in Files : t.disk[f] >= s.disk[f]
OnlyIn(s, t, g)  == \A f \in Files \ {g} : t.disk[f] = s.disk[f]

(* The fields that most steps leave alone.                                 *)
Keeps(s, t) ==
  /\ t.log.logFileName = s.log.logFileName
  /\ t.log.recordsLimit = s.log.recordsLimit /\ t.log.currentRecords = s.log.currentRecords

-----------------------------------------------------------------------------
(* The smallest number of a set.                                           *)
Less == {p \in Nat \X Nat : p[1] < p[2]}

LEMMA LessIsWellFounded == IsWellFoundedOn(Less, Nat)
  BY NatLessThanWellFounded DEF OpToRel, Less

LEMMA MinIsIn ==
  ASSUME NEW S, S \subseteq Nat, S # {}
  PROVE  Min(S) \in S
  <1>1. PICK x \in S : \A y \in S : ~(<<y, x>> \in Less)
    BY LessIsWellFounded, WFMin
  <1>2. ASSUME NEW y \in S PROVE x <= y
    <2>1. <<y, x>> \in Nat \X Nat /\ ~(<<y, x>> \in Less)
      BY <1>1
    <2>2. ~(<<y, x>>[1] < <<y, x>>[2])
      BY <2>1 DEF Less
    <2>3. y \in Nat /\ x \in Nat
      OBVIOUS
    <2> QED BY <2>2, <2>3
  <1> QED BY <1>2 DEF Min

-----------------------------------------------------------------------------
(* What the steps of the calls do to a state.                              *)
LEMMA EntriesAreCounted ==
  ASSUME NEW s \in States, NEW f \in Files
  PROVE  Entries(s, f) \in Nat
  BY DEF Entries, Exists, States, Disks, Missing

LEMMA CommonLoggerWrites ==
  ASSUME NEW s \in States
  PROVE  /\ CommonLogger(s) \in States /\ CommonLogger(s).disk = s.disk
         /\ Keeps(s, CommonLogger(s))
         /\ CommonLogger(s).log.fd = s.log.fd /\ CommonLogger(s).log.out = s.log.out
  BY DEF CommonLogger, States, Logs, Keeps

LEMMA CloseCloses ==
  ASSUME NEW s \in States
  PROVE  /\ Close(s) \in States
         /\ Grows(s, Close(s)) /\ OnlyIn(s, Close(s), s.log.fd)
         /\ Keeps(s, Close(s)) /\ Close(s).log.fd = NoFile /\ Close(s).log.out = s.log.out
  <1>1. CASE s.log.fd = NoFile
    BY <1>1 DEF Close, States, Disks, Grows, OnlyIn, Missing, Keeps
  <1>2. CASE s.log.fd # NoFile
    <2> DEFINE d == [s.disk EXCEPT ![s.log.fd] = @ + s.log.unflushed]
               l == [s.log EXCEPT !.fd = NoFile, !.unflushed = 0]
    <2>1. Close(s) = [log |-> l, disk |-> d]
      <3>1. Close(s) = [s EXCEPT !.disk = d, !.log = l]
        BY <1>2 DEF Close, States, Logs
      <3> QED BY <3>1 DEF States
    <2>2. s.log.fd \in Files /\ s.log.unflushed \in Nat
      BY <1>2 DEF States, Logs
    <2>3. l \in Logs /\ l.fd = NoFile /\ l.out = s.log.out /\ Keeps(s, [log |-> l, disk |-> d])
      BY DEF States, Logs, Keeps
    <2>4. /\ d \in Disks
          /\ \A f \in Files : d[f] >= s.disk[f]
          /\ \A f \in Files \ {s.log.fd} : d[f] = s.disk[f]
      BY <2>2 DEF States, Disks, Missing
    <2> HIDE DEF d, l
    <2> QED BY <2>1, <2>3, <2>4 DEF States, Grows, OnlyIn
  <1> QED BY <1>1, <1>2

LEMMA CreateCreates ==
  ASSUME NEW s \in States, NEW f \in Files
  PROVE  /\ Create(s, f) \in States /\ Create(s, f).log = s.log
         /\ Grows(s, Create(s, f)) /\ OnlyIn(s, Create(s, f), f)
  <1> DEFINE d == [s.disk EXCEPT ![f] = IF @ = Missing THEN 0 ELSE @]
  <1>1. Create(s, f) = [log |-> s.log, disk |-> d]
    BY DEF Create, States
  <1> QED BY <1>1 DEF States, Disks, Grows, OnlyIn, Missing

LEMMA OpenOpens ==
  ASSUME NEW s \in States, NEW f \in Files
  PROVE  /\ Open(s, f) \in States
         /\ Grows(s, Open(s, f)) /\ OnlyIn(s, Open(s, f), f)
         /\ Keeps(s, Open(s, f)) /\ Open(s, f).log.fd = f /\ Open(s, f).log.out = "fd"
  <1> DEFINE c == Create(s, f)
             l == [s.log EXCEPT !.fd = f, !.out = "fd"]
  <1>1. c \in States /\ c.log = s.log /\ Grows(s, c) /\ OnlyIn(s, c, f)
    BY CreateCreates
  <1>2. Open(s, f) = [c EXCEPT !.log = l]
    <2> HIDE DEF c
    <2>1. Open(s, f) = [c EXCEPT !.log.fd = f, !.log.out = "fd"]
      BY DEF Open, c
    <2> QED BY <1>1, <2>1 DEF States, Logs
  <1>3. l \in Logs /\ l.fd = f /\ l.out = "fd" /\ Keeps(s, [log |-> l])
    BY DEF States, Logs, Keeps
  <1> HIDE DEF c, l
  <1> QED BY <1>1, <1>2, <1>3 DEF States, Grows, OnlyIn, Keeps

LEMMA MoveToMoves ==
  ASSUME NEW s \in States, NEW f \in Files
  PROVE  /\ MoveTo(s, f) \in States /\ Grows(s, MoveTo(s, f))
         /\ MoveTo(s, f).log.fd = f /\ MoveTo(s, f).log.out = "fd"
         /\ MoveTo(s, f).log.logFileName = f
         /\ MoveTo(s, f).log.recordsLimit = s.log.recordsLimit
         /\ MoveTo(s, f).log.currentRecords = Entries(s, f)
         /\ \A g \in Files \ {f, s.log.fd} : MoveTo(s, f).disk[g] = s.disk[g]
  <1> DEFINE a == CommonLogger(s)
             b == Close(a)
             c == Open(b, f)
             l == [c.log EXCEPT !.logFileName = f, !.currentRecords = Entries(s, f)]
  <1>1. a \in States /\ b \in States /\ c \in States
    BY CommonLoggerWrites, CloseCloses, OpenOpens
  <1>2. /\ a.disk = s.disk /\ a.log.fd = s.log.fd /\ Keeps(s, a)
        /\ Grows(a, b) /\ OnlyIn(a, b, a.log.fd) /\ Keeps(a, b)
        /\ Grows(b, c) /\ OnlyIn(b, c, f) /\ Keeps(b, c) /\ c.log.fd = f /\ c.log.out = "fd"
    BY <1>1, CommonLoggerWrites, CloseCloses, OpenOpens
  <1>3. MoveTo(s, f) = [c EXCEPT !.log = l]
    <2> HIDE DEF c
    <2>1. MoveTo(s, f) = [c EXCEPT !.log.logFileName = f, !.log.currentRecords = Entries(s, f)]
      BY DEF MoveTo, a, b, c
    <2> QED BY <1>1, <2>1 DEF States, Logs
  <1> HIDE DEF a, b, c
  <1>4. /\ l \in Logs /\ l.fd = f /\ l.out = "fd" /\ l.logFileName = f
        /\ l.recordsLimit = s.log.recordsLimit /\ l.currentRecords = Entries(s, f)
    BY <1>1, <1>2, EntriesAreCounted DEF States, Logs, Keeps
  <1>5. \A g \in Files : /\ s.disk[g] \in Int /\ b.disk[g] \in Int /\ c.disk[g] \in Int
                         /\ b.disk[g] >= s.disk[g] /\ c.disk[g] >= b.disk[g]
    BY <1>1, <1>2 DEF States, Disks, Missing, Grows
  <1>6. \A g \in Files \ {f, s.log.fd} : c.disk[g] = s.disk[g]
    BY <1>2 DEF OnlyIn
  <1> HIDE DEF l
  <1> QED BY <1>1, <1>3, <1>4, <1>5, <1>6 DEF States, Grows

-----------------------------------------------------------------------------
(* What holds of a state between two calls.                                *)
Named(s) == s.log.fd # NoFile => s.log.fd = s.log.logFileName
Wired(s) == s.log.out # "stdout" => ((s.log.out = "fd") <=> (s.log.fd # NoFile))
Waits(s) ==
  s.log.recordsLimit > 0 /\ Full(s) /\ Room(s) # {} => NextVolume(s) \in Unwritable
Good(s)  == s \in States /\ Named(s) /\ Wired(s)

LEMMA NextVolumeHasRoom ==
  ASSUME NEW s \in States, Room(s) # {}
  PROVE  /\ NextVolume(s) \in Files
         /\ s.log.recordsLimit > 0 => Entries(s, NextVolume(s)) < s.log.recordsLimit
  <1> DEFINE n == s.log.logFileName
  <1>1. n \in Bases \X (1 .. MaxVolume) /\ n[1] \in Bases /\ n[2] \in 1 .. MaxVolume
    BY DEF States, Logs, Files
  <1>2. MaxVolume \in Nat
    BY LoggerAssumption
  <1>3. Room(s) \subseteq 1 .. MaxVolume
    BY <1>1, <1>2 DEF Room
  <1>4. Min(Room(s)) \in Room(s)
    BY <1>2, <1>3, MinIsIn
  <1>5. NextVolume(s) \in Files
    BY <1>1, <1>3, <1>4 DEF NextVolume, Files
  <1>6. ~Exists(s, NextVolume(s)) \/ Entries(s, NextVolume(s)) < s.log.recordsLimit
    BY <1>4 DEF Room, NextVolume
  <1> QED BY <1>5, <1>6 DEF Entries

(* Room is looked for beyond the current volume only.                      *)
LEMMA WaitsStays ==
  ASSUME NEW s \in States, NEW t \in States, Waits(s), Keeps(s, t),
         OnlyIn(s, t, s.log.logFileName)
  PROVE  Waits(t)
  <1> DEFINE n == s.log.logFileName
  <1>1. t.log.logFileName = n /\ n \in Files /\ n[1] \in Bases /\ n[2] \in 1 .. MaxVolume
    BY DEF Keeps, States, Logs, Files
  <1>2. ASSUME NEW v \in n[2] + 1 .. MaxVolume
        PROVE  s.disk[<<n[1], v>>] = t.disk[<<n[1], v>>]
    <2>1. v \in 1 .. MaxVolume /\ v # n[2]
      BY <1>1, LoggerAssumption
    <2>2. <<n[1], v>> \in Files /\ <<n[1], v>> # n
      BY <1>1, <2>1 DEF Files
    <2> QED BY <2>2 DEF OnlyIn
  <1>3. Room(s) = Room(t)
    <2>1. \A v \in n[2] + 1 .. MaxVolume :
            /\ Exists(s, <<n[1], v>>) <=> Exists(t, <<n[1], v>>)
            /\ Entries(s, <<n[1], v>>) = Entries(t, <<n[1], v>>)
      BY <1>2 DEF Exists, Entries
    <2> HIDE DEF n
    <2>2. Room(s) = {v \in n[2] + 1 .. MaxVolume :
                       ~Exists(s, <<n[1], v>>) \/ Entries(s, <<n[1], v>>) < s.log.recordsLimit}
      BY DEF Room, n
    <2>3. Room(t) = {v \in n[2] + 1 .. MaxVolume :
                       ~Exists(t, <<n[1], v>>) \/ Entries(t, <<n[1], v>>) < s.log.recordsLimit}
      BY <1>1 DEF Room, Keeps
    <2> QED BY <2>1, <2>2, <2>3
  <1> QED BY <1>3 DEF Waits, Full, NextVolume, Keeps

LEMMA ChangeVolumeChanges ==
  ASSUME NEW s \in States, Wired(s), Room(s) # {}
  PROVE  LET t == ChangeVolume(s)
         IN  /\ t \in States /\ Wired(t) /\ Grows(s, t)
             /\ t.log.recordsLimit = s.log.recordsLimit
             /\ ChangeVolumeFails(s) => Keeps(s, t) /\ t.disk = s.disk /\ t.log.fd = s.log.fd
             /\ ~ChangeVolumeFails(s) => Named(t) /\ (t.log.recordsLimit > 0 => ~Full(t))
  <1> DEFINE n == NextVolume(s)
  <1>1. /\ n \in Files /\ Entries(s, n) \in Nat
        /\ s.log.recordsLimit > 0 => Entries(s, n) < s.log.recordsLimit
    BY NextVolumeHasRoom, EntriesAreCounted
  <1>2. CASE ChangeVolumeFails(s)
    <2>1. \A f \in Files : s.disk[f] >= s.disk[f]
      BY DEF States, Disks, Missing
    <2>2. ChangeVolume(s) = CommonLogger(s)
      BY <1>2 DEF ChangeVolume
    <2> QED BY <1>2, <2>1, <2>2, CommonLoggerWrites DEF Wired, Grows, Keeps
  <1>3. CASE ~ChangeVolumeFails(s) /\ s.log.fd # NoFile
    <2>1. ChangeVolume(s) = MoveTo(s, n)
      BY <1>3 DEF ChangeVolume
    <2>2. n # NoFile
      BY <1>1, LoggerAssumption
    <2> HIDE DEF n
    <2> QED BY <1>1, <1>3, <2>1, <2>2, MoveToMoves DEF Wired, Named, Full, States, Logs
  <1>4. CASE s.log.fd = NoFile
    <2> DEFINE c == IF s.log.logFileName \in Unwritable THEN s ELSE Create(s, s.log.logFileName)
               l == [c.log EXCEPT !.logFileName = n, !.currentRecords = Entries(s, n)]
    <2>1. c \in States /\ c.log = s.log /\ Grows(s, c)
      <3>1. s.log.logFileName \in Files /\ \A f \in Files : s.disk[f] >= s.disk[f]
        BY DEF States, Logs, Disks, Missing
      <3> QED BY <3>1, CreateCreates DEF Grows
    <2>2. ChangeVolume(s) = [c EXCEPT !.log = l]
      <3>1. ChangeVolume(s) = [c EXCEPT !.log.logFileName = n, !.log.currentRecords = Entries(s, n)]
        BY <1>4 DEF ChangeVolume, ChangeVolumeFails
      <3> HIDE DEF c, n
      <3> QED BY <2>1, <3>1 DEF States, Logs
    <2> HIDE DEF c, n
    <2>3. /\ l \in Logs /\ l.fd = s.log.fd /\ l.out = s.log.out /\ l.currentRecords = Entries(s, n)
          /\ l.recordsLimit = s.log.recordsLimit
      BY <1>1, <2>1 DEF States, Logs
    <2> HIDE DEF l
    <2>4. ~ChangeVolumeFails(s)
      BY <1>4 DEF ChangeVolumeFails
    <2> QED BY <1>1, <1>4, <2>1, <2>2, <2>3, <2>4 DEF Wired, Named, Full, States, Logs, Grows
  <1> QED BY <1>2, <1>3, <1>4

-----------------------------------------------------------------------------
(* A full volume was not left: the next one cannot be opened, or a write   *)
(* failed.                                                                 *)
Inv == Good(State) /\ failed \in BOOLEAN /\ (~failed => Waits(State))

(* A call leads to a state that is good again.                             *)
Leads(t) == Good(t) /\ Grows(State, t)

LEMMA BecomesState ==
  ASSUME NEW t \in States, Becomes(t)
  PROVE  State' = t
  BY DEF States, State, Becomes

LEMMA GrowsOn ==
  ASSUME NEW s \in States, NEW t \in States, NEW u \in States, Grows(s, t), Grows(t, u)
  PROVE  Grows(s, u)
  <1>1. \A f \in Files : s.disk[f] \in Int /\ t.disk[f] \in Int /\ u.disk[f] \in Int
    BY DEF States, Disks, Missing
  <1> QED BY <1>1 DEF Grows

LEMMA GrowsSame ==
  ASSUME NEW s \in States, NEW t \in States, t.disk = s.disk
  PROVE  Grows(s, t)
  BY DEF Grows, States, Disks, Missing

(* The assignments to single fields.                                       *)
LEMMA FieldsAreSet ==
  ASSUME NEW s \in States
  PROVE  /\ Counted(s) = [log |-> [s.log EXCEPT !.currentRecords = @ + 1], disk |-> s.disk]
         /\ \A path : [s EXCEPT !.log.logFileName = path] =
              [log |-> [s.log EXCEPT !.logFileName = path], disk |-> s.disk]
         /\ \A limit : [s EXCEPT !.log.recordsLimit = limit] =
              [log |-> [s.log EXCEPT !.recordsLimit = limit], disk |-> s.disk]
         /\ \A o : [s EXCEPT !.log.out = o] =
              [log |-> [s.log EXCEPT !.out = o], disk |-> s.disk]
         /\ \A n : [s EXCEPT !.log.unflushed = n] =
              [log |-> [s.log EXCEPT !.unflushed = n], disk |-> s.disk]
  BY DEF Counted, States

-----------------------------------------------------------------------------
(* The calls.                                                              *)

(* Push counts a record and moves on when the volume is full.              *)
LEMMA PushCountedLeads ==
  ASSUME NEW s \in States, Named(s), Wired(s), s.log.fd # NoFile, Grows(State, s),
         State \in States, PushCounted(s)
  PROVE  Leads(State') /\ Waits(State')
  <1> DEFINE c == Counted(s)
  <1>1. /\ c \in States /\ Named(c) /\ Wired(c) /\ c.disk = s.disk
        /\ c.log.fd = s.log.fd /\ c.log.logFileName = s.log.logFileName
    BY FieldsAreSet DEF States, Logs, Named, Wired
  <1> HIDE DEF c
  <1>2. Grows(State, c)
    BY <1>1 DEF Grows
  <1>3. CASE ~Full(c)
    <2>1. State' = c
      BY <1>1, <1>3, BecomesState DEF PushCounted, c
    <2> QED BY <1>1, <1>2, <1>3, <2>1 DEF Leads, Good, Waits
  <1>4. CASE Full(c)
    <2> DEFINE t == ChangeVolume(c)
    <2>1. Room(c) # {} /\ Becomes(t)
      BY <1>4 DEF PushCounted, CanRotate, c
    <2>2. /\ t \in States /\ Wired(t) /\ Grows(c, t) /\ t.log.recordsLimit = c.log.recordsLimit
          /\ ChangeVolumeFails(c) => Keeps(c, t) /\ t.disk = c.disk /\ t.log.fd = c.log.fd
          /\ ~ChangeVolumeFails(c) => Named(t) /\ (t.log.recordsLimit > 0 => ~Full(t))
      BY <1>1, <2>1, ChangeVolumeChanges
    <2>3. State' = t /\ Grows(State, t)
      BY <1>1, <1>2, <2>1, <2>2, BecomesState, GrowsOn
    <2> HIDE DEF t
    <2>4. CASE ChangeVolumeFails(c)
      <3>1. Named(t)
        BY <1>1, <2>2, <2>4 DEF Named, Keeps
      <3>2. Waits(c)
        BY <2>4 DEF Waits, ChangeVolumeFails
      <3>3. Waits(t)
        BY <1>1, <2>2, <2>4, <3>2, WaitsStays DEF OnlyIn
      <3> QED BY <2>2, <2>3, <3>1, <3>3 DEF Leads, Good
    <2>5. CASE ~ChangeVolumeFails(c)
      BY <2>2, <2>3, <2>5 DEF Leads, Good, Waits
    <2> QED BY <2>4, <2>5
  <1> QED BY <1>3, <1>4

LEMMA PushLeads ==
  ASSUME Inv, Push
  PROVE  Leads(State') /\ Waits(State')
  <1> DEFINE s == CommonLogger(State)
  <1>1. State \in States /\ State.log.fd # NoFile /\ PushCounted(s)
    BY DEF Inv, Good, Push, State
  <1>2. /\ s \in States /\ s.disk = State.disk /\ Keeps(State, s)
        /\ s.log.fd = State.log.fd /\ s.log.out = State.log.out
    BY <1>1, CommonLoggerWrites
  <1> HIDE DEF s
  <1>3. Named(s) /\ Wired(s) /\ Grows(State, s)
    BY <1>1, <1>2, GrowsSame DEF Inv, Good, Named, Wired, Keeps
  <1> QED BY <1>1, <1>2, <1>3, PushCountedLeads

LEMMA SetLimitLeads ==
  ASSUME Inv, NEW limit \in Limits, SetLogFileRecordsLimit(limit)
  PROVE  Leads(State') /\ (~failed => Waits(State'))
  <1> DEFINE s == [State EXCEPT !.log.recordsLimit = limit]
             t == ChangeVolume(s)
  <1>1. State \in States /\ Named(State) /\ Wired(State) /\ limit \in Nat
    BY LoggerAssumption DEF Inv, Good
  <1>2. /\ s \in States /\ Named(s) /\ Wired(s) /\ s.disk = State.disk
        /\ s.log.fd = State.log.fd /\ s.log.logFileName = State.log.logFileName
        /\ s.log.currentRecords = State.log.currentRecords
    BY <1>1, FieldsAreSet DEF States, Logs, Named, Wired
  <1>3. /\ ~Full(s) => Becomes(s)
        /\ Full(s) => /\ Room(s) # {}
                      /\ Becomes([t EXCEPT !.log.recordsLimit =
                                    IF ChangeVolumeFails(s) THEN log.recordsLimit ELSE @])
    BY DEF SetLogFileRecordsLimit, CanRotate
  <1> HIDE DEF s
  <1>4. CASE ~Full(s)
    <2>1. State' = s /\ Grows(State, s)
      BY <1>1, <1>2, <1>3, <1>4, BecomesState, GrowsSame
    <2> QED BY <1>2, <1>4, <2>1 DEF Leads, Good, Waits
  <1>5. CASE Full(s)
    <2>1. /\ t \in States /\ Wired(t) /\ Grows(s, t) /\ t.log.recordsLimit = s.log.recordsLimit
          /\ ChangeVolumeFails(s) => Keeps(s, t) /\ t.disk = s.disk /\ t.log.fd = s.log.fd
          /\ ~ChangeVolumeFails(s) => Named(t) /\ (t.log.recordsLimit > 0 => ~Full(t))
      BY <1>2, <1>3, <1>5, ChangeVolumeChanges
    <2>2. Grows(State, s)
      BY <1>1, <1>2, GrowsSame
    <2>3. Grows(State, t)
      BY <1>1, <1>2, <2>1, <2>2, GrowsOn
    <2> HIDE DEF t
    <2>4. CASE ChangeVolumeFails(s)
      <3> DEFINE u == [t EXCEPT !.log.recordsLimit = log.recordsLimit]
      <3>1. Becomes(u)
        BY <1>3, <1>5, <2>4
      <3>2. log.recordsLimit \in Nat /\ log = State.log
        BY <1>1 DEF State, States, Logs
      <3>3. u = [log |-> [t.log EXCEPT !.recordsLimit = log.recordsLimit], disk |-> t.disk]
        BY <2>1, <3>2, FieldsAreSet
      <3> HIDE DEF u
      <3>4. /\ u \in States /\ u.disk = State.disk /\ Keeps(State, u)
            /\ u.log.fd = State.log.fd /\ u.log.out = t.log.out
        BY <1>2, <2>1, <2>4, <3>2, <3>3 DEF States, Logs, Keeps
      <3>5. State' = u
        BY <3>1, <3>4, BecomesState
      <3>6. Named(u) /\ Wired(u) /\ Grows(State, u)
        BY <1>1, <1>2, <2>1, <2>4, <3>4, GrowsSame DEF Named, Wired, Keeps
      <3>7. ~failed => Waits(u)
        BY <1>1, <3>4, WaitsStays DEF Inv, OnlyIn
      <3> QED BY <3>4, <3>5, <3>6, <3>7 DEF Leads, Good
    <2>5. CASE ~ChangeVolumeFails(s)
      <3>1. Becomes([t EXCEPT !.log.recordsLimit = t.log.recordsLimit])
        BY <1>3, <1>5, <2>5
      <3>2. t.log.recordsLimit \in Nat
        BY <2>1 DEF States, Logs
      <3>3. [t EXCEPT !.log.recordsLimit = t.log.recordsLimit] = t
        BY <2>1, <3>2, FieldsAreSet DEF States, Logs
      <3>4. State' = t
        BY <2>1, <3>1, <3>3, BecomesState
      <3> QED BY <2>1, <2>3, <2>5, <3>4 DEF Leads, Good, Waits
    <2> QED BY <2>4, <2>5
  <1> QED BY <1>4, <1>5

LEMMA ReopenedLeads ==
  ASSUME Inv, log.fd = NoFile => log.logFileName \notin Unwritable
  PROVE  /\ Leads(Reopened) /\ Keeps(State, Reopened) /\ (~failed => Waits(Reopened))
         /\ Reopened.log.fd = log.logFileName /\ log.logFileName \in Files
  <1>1. State \in States /\ log = State.log /\ log.logFileName \in Files
    BY DEF Inv, Good, State, States, Logs
  <1>2. log.logFileName # NoFile
    BY <1>1, LoggerAssumption
  <1>3. CASE log.fd = NoFile
    <2> DEFINE t == Open(State, log.logFileName)
    <2>1. /\ t \in States /\ Grows(State, t) /\ OnlyIn(State, t, log.logFileName)
          /\ Keeps(State, t) /\ t.log.fd = log.logFileName /\ t.log.out = "fd"
      BY <1>1, OpenOpens
    <2>2. Reopened = t
      BY <1>3 DEF Reopened
    <2> HIDE DEF t
    <2>3. ~failed => Waits(t)
      BY <1>1, <2>1, WaitsStays DEF Inv
    <2> QED BY <1>1, <1>2, <2>1, <2>2, <2>3 DEF Leads, Good, Named, Wired, Keeps
  <1>4. CASE log.fd # NoFile
    <2>1. Reopened = State
      BY <1>4 DEF Reopened
    <2> QED BY <1>1, <1>4, <2>1, GrowsSame DEF Inv, Leads, Good, Keeps, Named
  <1> QED BY <1>3, <1>4

LEMMA ReopenFailsLeads ==
  ASSUME Inv, NEW path \in Files, ChangeLogFileNameReopenFails(path)
  PROVE  Leads(State') /\ (~failed => Waits(State'))
  <1> DEFINE t == CommonLogger(State)
  <1>1. State \in States /\ Becomes(t)
    BY DEF Inv, Good, ChangeLogFileNameReopenFails
  <1>2. /\ t \in States /\ t.disk = State.disk /\ Keeps(State, t)
        /\ t.log.fd = State.log.fd /\ t.log.out = State.log.out
    BY <1>1, CommonLoggerWrites
  <1> HIDE DEF t
  <1>3. State' = t /\ Grows(State, t) /\ (~failed => Waits(t))
    BY <1>1, <1>2, BecomesState, GrowsSame, WaitsStays DEF Inv, OnlyIn
  <1> QED BY <1>2, <1>3 DEF Inv, Leads, Good, Named, Wired, Keeps

(* The old name comes back when the volume after the full file fails.      *)
LEMMA ChangeNameFullLeads ==
  ASSUME Inv, NEW path \in Files, ChangeLogFileNameFull(path)
  PROVE  Leads(State') /\ (~failed => Waits(State'))
  <1> DEFINE r == Reopened
             s == [r EXCEPT !.log.logFileName = path]
             c == ChangeVolume(s)
  <1>1. /\ r \in States /\ Named(r) /\ Wired(r) /\ Grows(State, r) /\ Keeps(State, r)
        /\ (~failed => Waits(r)) /\ r.log.fd = log.logFileName /\ log.logFileName \in Files
    BY ReopenedLeads DEF ChangeLogFileNameFull, Leads, Good
  <1>2. State \in States /\ log = State.log /\ r.log.fd # NoFile
    BY <1>1, LoggerAssumption DEF Inv, Good, State
  <1>3. /\ Room(s) # {}
        /\ Becomes(IF ChangeVolumeFails(s) THEN [c EXCEPT !.log.logFileName = log.logFileName] ELSE c)
    BY DEF ChangeLogFileNameFull, CanRotate
  <1> HIDE DEF r
  <1>4. /\ s \in States /\ Wired(s) /\ s.disk = r.disk
        /\ s.log.fd = r.log.fd /\ s.log.logFileName = path
        /\ s.log.recordsLimit = r.log.recordsLimit /\ s.log.currentRecords = r.log.currentRecords
    BY <1>1, FieldsAreSet DEF States, Logs, Wired
  <1> HIDE DEF s
  <1>5. /\ c \in States /\ Wired(c) /\ Grows(s, c) /\ c.log.recordsLimit = s.log.recordsLimit
        /\ ChangeVolumeFails(s) => Keeps(s, c) /\ c.disk = s.disk /\ c.log.fd = s.log.fd
        /\ ~ChangeVolumeFails(s) => Named(c) /\ (c.log.recordsLimit > 0 => ~Full(c))
    BY <1>3, <1>4, ChangeVolumeChanges
  <1> HIDE DEF c
  <1>6. Grows(State, c)
    <2>1. Grows(r, c)
      BY <1>4, <1>5 DEF Grows
    <2> QED BY <1>1, <1>2, <1>5, <2>1, GrowsOn
  <1>7. CASE ChangeVolumeFails(s)
    <2> DEFINE u == [c EXCEPT !.log.logFileName = log.logFileName]
    <2>1. Becomes(u)
      BY <1>3, <1>7
    <2>2. u = [log |-> [c.log EXCEPT !.logFileName = log.logFileName], disk |-> c.disk]
      BY <1>5, FieldsAreSet
    <2> HIDE DEF u
    <2>3. /\ u \in States /\ u.disk = r.disk /\ Keeps(r, u)
          /\ u.log.fd = r.log.fd /\ u.log.out = c.log.out
      BY <1>1, <1>2, <1>4, <1>5, <1>7, <2>2 DEF States, Logs, Keeps
    <2>4. State' = u /\ Named(u) /\ Wired(u)
      BY <1>1, <1>4, <1>5, <1>7, <2>1, <2>3, BecomesState DEF Named, Wired, Keeps
    <2>5. ~failed => Waits(u)
      BY <1>1, <2>3, WaitsStays DEF OnlyIn
    <2>6. Grows(State, u)
      BY <1>1, <2>3 DEF Grows
    <2> QED BY <2>3, <2>4, <2>5, <2>6 DEF Leads, Good
  <1>8. CASE ~ChangeVolumeFails(s)
    <2>1. State' = c
      BY <1>3, <1>5, <1>8, BecomesState
    <2> QED BY <1>5, <1>6, <1>8, <2>1 DEF Leads, Good, Waits
  <1> QED BY <1>7, <1>8

LEMMA ChangeNameLeads ==
  ASSUME Inv, NEW path \in Files, ChangeLogFileName(path)
  PROVE  Leads(State') /\ (~failed => Waits(State'))
  <1> DEFINE r == Reopened
  <1>1. /\ r \in States /\ Named(r) /\ Wired(r) /\ Grows(State, r)
        /\ (~failed => Waits(r))
    BY ReopenedLeads DEF ChangeLogFileName, Leads, Good
  <1>2. State \in States /\ path # NoFile
    BY LoggerAssumption DEF Inv, Good
  <1>3. /\ ~Exists(r, path) \/ Entries(r, path) < log.recordsLimit
        /\ Becomes(IF path \in Unwritable THEN CommonLogger(r) ELSE MoveTo(r, path))
    BY DEF ChangeLogFileName
  <1>4. Keeps(State, r) /\ log = State.log
    BY ReopenedLeads DEF ChangeLogFileName, State
  <1> HIDE DEF r
  <1>5. CASE path \in Unwritable
    <2> DEFINE t == CommonLogger(r)
    <2>1. /\ t \in States /\ t.disk = r.disk /\ Keeps(r, t)
          /\ t.log.fd = r.log.fd /\ t.log.out = r.log.out
      BY <1>1, CommonLoggerWrites
    <2>2. Becomes(t)
      BY <1>3, <1>5
    <2> HIDE DEF t
    <2>3. State' = t /\ Grows(State, t) /\ (~failed => Waits(t))
      BY <1>1, <2>1, <2>2, BecomesState, WaitsStays DEF OnlyIn, Grows
    <2> QED BY <1>1, <2>1, <2>3 DEF Leads, Good, Named, Wired, Keeps
  <1>6. CASE path \notin Unwritable
    <2> DEFINE t == MoveTo(r, path)
    <2>1. /\ t \in States /\ Grows(r, t) /\ t.log.fd = path /\ t.log.out = "fd"
          /\ t.log.logFileName = path /\ t.log.recordsLimit = r.log.recordsLimit
          /\ t.log.currentRecords = Entries(r, path)
      BY <1>1, MoveToMoves
    <2>2. Becomes(t)
      BY <1>3, <1>6
    <2> HIDE DEF t
    <2>3. State' = t /\ Grows(State, t)
      BY <1>1, <1>2, <2>1, <2>2, BecomesState, GrowsOn
    <2>4. t.log.recordsLimit > 0 => ~Full(t)
      <3>1. r.log.recordsLimit = log.recordsLimit /\ r.log.recordsLimit \in Nat
        BY <1>1, <1>4 DEF Keeps, States, Logs
      <3>2. Entries(r, path) \in Nat /\ (Exists(r, path) \/ Entries(r, path) = 0)
        BY <1>1, EntriesAreCounted DEF Entries
      <3> QED BY <1>3, <2>1, <3>1, <3>2 DEF Full
    <2> QED BY <1>2, <2>1, <2>3, <2>4 DEF Leads, Good, Named, Wired, Waits
  <1> QED BY <1>5, <1>6

LEMMA BothAreSet ==
  ASSUME NEW s \in States, NEW d \in Disks, NEW l \in Logs
  PROVE  [s EXCEPT !.disk = d, !.log = l] = [log |-> l, disk |-> d]
  <1> DEFINE t == [s EXCEPT !.disk = d, !.log = l]
  <1>1. t \in States /\ t.log = l /\ t.disk = d
    BY DEF States
  <1> HIDE DEF t
  <1>2. t = [log |-> l, disk |-> d]
    BY <1>1 DEF States
  <1> QED BY <1>2 DEF t

LEMMA FlushLeads ==
  ASSUME Inv, Flush
  PROVE  Leads(State') /\ (~failed => Waits(State'))
  <1> DEFINE d == [State.disk EXCEPT ![log.fd] = @ + log.unflushed]
             l == [State.log EXCEPT !.unflushed = 0]
             t == [log |-> l, disk |-> d]
  <1>1. /\ State \in States /\ Named(State) /\ Wired(State) /\ log = State.log
        /\ log.fd = log.logFileName /\ log.fd \in Files /\ log.unflushed \in Nat
    BY DEF Flush, Inv, Good, State, Named, States, Logs
  <1>2. Becomes(t)
    <2>1. [State EXCEPT !.disk[log.fd] = @ + log.unflushed, !.log.unflushed = 0]
            = [State EXCEPT !.disk = d, !.log = l]
      BY <1>1 DEF States, Logs, Disks
    <2>2. [State EXCEPT !.disk = d, !.log = l] = t
      <3>1. d \in Disks /\ l \in Logs
        BY <1>1 DEF States, Logs, Disks, Missing
      <3> HIDE DEF d, l
      <3> QED BY <1>1, <3>1, BothAreSet
    <2> QED BY <2>1, <2>2 DEF Flush
  <1>3. /\ d \in Disks
        /\ \A f \in Files : d[f] >= State.disk[f]
        /\ \A f \in Files \ {log.fd} : d[f] = State.disk[f]
    BY <1>1 DEF States, Disks, Missing
  <1>4. /\ l \in Logs /\ l.fd = log.fd /\ l.out = State.log.out /\ Keeps(State, t)
    BY <1>1 DEF States, Logs, Keeps
  <1> HIDE DEF d, l
  <1>5. t \in States /\ Grows(State, t) /\ OnlyIn(State, t, log.logFileName)
    BY <1>1, <1>3, <1>4 DEF States, Grows, OnlyIn
  <1> HIDE DEF t
  <1>6. State' = t
    BY <1>2, <1>5, BecomesState
  <1>7. ~failed => Waits(t)
    BY <1>1, <1>4, <1>5, WaitsStays DEF Inv
  <1>8. t.log.fd = State.log.fd /\ t.log.out = State.log.out
    BY <1>1, <1>4 DEF t
  <1> QED BY <1>1, <1>4, <1>5, <1>6, <1>7, <1>8 DEF Leads, Good, Named, Wired, Keeps

(* Closing the logfile leaves out to the caller.                           *)
LEMMA ClosedLeads ==
  ASSUME Inv, NEW s \in States, Keeps(State, s), s.disk = State.disk,
         s.log.fd = State.log.fd, NEW o \in {"clog", "stdout"},
         Becomes([Close(s) EXCEPT !.log.out = o])
  PROVE  Leads(State') /\ (~failed => Waits(State'))
  <1> DEFINE c == Close(s)
             t == [c EXCEPT !.log.out = o]
  <1>1. /\ c \in States /\ Grows(s, c) /\ OnlyIn(s, c, s.log.fd)
        /\ Keeps(s, c) /\ c.log.fd = NoFile
    BY CloseCloses
  <1>2. State \in States /\ Named(State)
    BY DEF Inv, Good
  <1> HIDE DEF c
  <1>3. /\ t \in States /\ t.disk = c.disk /\ Keeps(c, t)
        /\ t.log.fd = NoFile /\ t.log.out = o
    BY <1>1, FieldsAreSet DEF States, Logs, Keeps
  <1>4. Becomes(t)
    BY DEF c
  <1> HIDE DEF t
  <1>5. State' = t /\ Grows(State, t)
    BY <1>1, <1>3, <1>4, BecomesState DEF Grows
  <1>6. OnlyIn(State, t, State.log.logFileName)
    <2>1. CASE State.log.fd = NoFile
      <3>1. NoFile \notin Files
        BY LoggerAssumption
      <3> QED BY <1>1, <1>3, <2>1, <3>1 DEF OnlyIn
    <2>2. CASE State.log.fd # NoFile
      BY <1>1, <1>2, <1>3, <2>2 DEF OnlyIn, Named
    <2> QED BY <2>1, <2>2
  <1>7. ~failed => Waits(t)
    BY <1>1, <1>2, <1>3, <1>6, WaitsStays DEF Inv, Keeps
  <1> QED BY <1>3, <1>5, <1>7 DEF Leads, Good, Named, Wired

LEMMA ToConsoleLeads ==
  ASSUME Inv, SwitchToConsole
  PROVE  Leads(State') /\ (~failed => Waits(State'))
  <1>1. State \in States /\ Keeps(State, State)
    BY DEF Inv, Good, Keeps
  <1> QED BY <1>1, ClosedLeads DEF SwitchToConsole

LEMMA ToLogfileLeads ==
  ASSUME Inv, SwitchToLogfile
  PROVE  Leads(State') /\ (~failed => Waits(State'))
  <1>1. State \in States /\ log = State.log /\ log.logFileName \in Files /\ log.fd = NoFile
    BY DEF Inv, Good, State, States, Logs, SwitchToLogfile
  <1>2. CASE log.logFileName \in Unwritable
    <2> DEFINE t == [State EXCEPT !.log.out = "clog"]
    <2>1. /\ t \in States /\ t.disk = State.disk /\ Keeps(State, t)
          /\ t.log.fd = NoFile /\ t.log.out = "clog"
      BY <1>1, FieldsAreSet DEF States, Logs, Keeps
    <2>2. Becomes(t)
      BY <1>2 DEF SwitchToLogfile
    <2> HIDE DEF t
    <2>3. State' = t /\ Grows(State, t) /\ (~failed => Waits(t))
      BY <1>1, <2>1, <2>2, BecomesState, GrowsSame, WaitsStays DEF Inv, OnlyIn
    <2> QED BY <2>1, <2>3 DEF Leads, Good, Named, Wired
  <1>3. CASE log.logFileName \notin Unwritable
    <2>1. State' = Reopened
      <3>1. Becomes(Reopened)
        BY <1>1, <1>3 DEF SwitchToLogfile, Reopened
      <3>2. Reopened \in States
        BY <1>3, ReopenedLeads DEF Leads, Good
      <3> QED BY <3>1, <3>2, BecomesState
    <2> QED BY <1>3, <2>1, ReopenedLeads
  <1> QED BY <1>2, <1>3

-----------------------------------------------------------------------------
(* The writes that fail.                                                   *)
LEMMA BrokenLeads ==
  ASSUME Inv, NEW s \in States, Named(s), s.log.fd # NoFile, Grows(State, s), Broken(s)
  PROVE  Leads(State')
  <1>1. PICK kept \in 0 .. s.log.unflushed :
               Becomes([s EXCEPT !.log.out = "stdout", !.log.unflushed = kept])
    BY DEF Broken
  <1> DEFINE t == [s EXCEPT !.log = [s.log EXCEPT !.out = "stdout", !.unflushed = kept]]
  <1>2. Becomes(t)
    BY <1>1
  <1>3. kept \in Nat
    BY DEF States, Logs
  <1>4. /\ t \in States /\ t.disk = s.disk /\ Keeps(s, t)
        /\ t.log.fd = s.log.fd /\ t.log.out = "stdout"
    BY <1>3 DEF States, Logs, Keeps
  <1> HIDE DEF t
  <1>5. State' = t /\ Grows(State, t)
    BY <1>2, <1>4, BecomesState DEF Grows
  <1> QED BY <1>4, <1>5 DEF Leads, Good, Named, Wired, Keeps

LEMMA WriteFailsLeads ==
  ASSUME Inv, WriteFails
  PROVE  Leads(State')
  <1>1. State \in States /\ Named(State) /\ Wired(State) /\ log = State.log
    BY DEF Inv, Good, State
  <1>2. CASE PushPrefixFails
    <2>1. PICK kept \in 0 .. log.unflushed :
                 Becomes(Close([State EXCEPT !.log.out = "stdout", !.log.unflushed = kept]))
      BY <1>2 DEF PushPrefixFails
    <2> DEFINE s == [State EXCEPT !.log = [State.log EXCEPT !.out = "stdout", !.unflushed = kept]]
               c == Close(s)
    <2>2. kept \in Nat
      BY <1>1 DEF States, Logs
    <2>3. /\ s \in States /\ s.disk = State.disk /\ Keeps(State, s)
          /\ s.log.fd = State.log.fd /\ s.log.out = "stdout"
      BY <1>1, <2>2 DEF States, Logs, Keeps
    <2>4. Becomes(c)
      BY <2>1
    <2> HIDE DEF s
    <2>5. /\ c \in States /\ Grows(s, c) /\ c.log.fd = NoFile /\ c.log.out = "stdout"
      BY <2>3, CloseCloses
    <2> HIDE DEF c
    <2>6. State' = c /\ Grows(State, c)
      BY <2>3, <2>4, <2>5, BecomesState DEF Grows
    <2> QED BY <2>5, <2>6 DEF Leads, Good, Named, Wired
  <1>3. CASE PushMessageFails
    <2> DEFINE s == [State EXCEPT !.log.out = "stdout"]
    <2>1. State.log.fd # NoFile /\ PushCounted(s)
      BY <1>1, <1>3 DEF PushMessageFails, Wired
    <2>2. /\ s \in States /\ s.disk = State.disk /\ Keeps(State, s)
          /\ s.log.fd = State.log.fd /\ s.log.out = "stdout"
      BY <1>1, FieldsAreSet DEF States, Logs, Keeps
    <2> HIDE DEF s
    <2>3. Named(s) /\ Wired(s) /\ Grows(State, s)
      BY <1>1, <2>2, GrowsSame DEF Named, Wired, Keeps
    <2> QED BY <1>1, <2>1, <2>2, <2>3, PushCountedLeads
  <1>4. CASE PushRotateFails
    <2> DEFINE a == CommonLogger(State)
               s == Counted(a)
               t == Create(s, NextVolume(s))
    <2>1. State.log.fd # NoFile /\ Room(s) # {} /\ Broken(t)
      BY <1>1, <1>4 DEF PushRotateFails, CanRotate, Wired
    <2>2. a \in States /\ a.disk = State.disk /\ Keeps(State, a) /\ a.log.fd = State.log.fd
      BY <1>1, CommonLoggerWrites
    <2> HIDE DEF a
    <2>3. /\ s \in States /\ s.disk = State.disk
          /\ s.log.fd = State.log.fd /\ s.log.logFileName = State.log.logFileName
      BY <2>2, FieldsAreSet DEF States, Logs, Keeps
    <2> HIDE DEF s
    <2>4. NextVolume(s) \in Files
      BY <2>1, <2>3, NextVolumeHasRoom
    <2>5. t \in States /\ t.log = s.log /\ Grows(s, t)
      BY <2>3, <2>4, CreateCreates
    <2> HIDE DEF t
    <2>6. Grows(State, t)
      BY <1>1, <2>3, <2>5, GrowsSame, GrowsOn
    <2> QED BY <1>1, <2>1, <2>3, <2>5, <2>6, BrokenLeads DEF Named
  <1>5. CASE FlushFails
    <2>1. /\ Leads(Reopened) /\ Reopened.log.fd # NoFile
          /\ \E s \in {Reopened} \cup {Create(Reopened, f) : f \in Files \ Unwritable} : Broken(s)
      BY <1>5, ReopenedLeads, LoggerAssumption DEF FlushFails
    <2>2. CASE Broken(Reopened)
      BY <2>1, <2>2, BrokenLeads DEF Leads, Good
    <2>3. ASSUME NEW f \in Files, Broken(Create(Reopened, f))
          PROVE  Leads(State')
      <3> DEFINE t == Create(Reopened, f)
      <3>1. Reopened \in States /\ Named(Reopened) /\ Grows(State, Reopened) /\ State \in States
        BY <2>1 DEF Leads, Good, Inv
      <3>2. t \in States /\ t.log = Reopened.log /\ Grows(Reopened, t)
        BY <3>1, CreateCreates
      <3>3. Broken(t)
        BY <2>3
      <3> HIDE DEF t
      <3>4. Grows(State, t)
        BY <3>1, <3>2, GrowsOn
      <3> QED BY <2>1, <3>1, <3>2, <3>3, <3>4, BrokenLeads DEF Named
    <2> QED BY <2>1, <2>2, <2>3
  <1> QED BY <1>2, <1>3, <1>4, <1>5 DEF WriteFails

-----------------------------------------------------------------------------
LEMMA NextLeads ==
  ASSUME Inv, Next
  PROVE  Inv' /\ Grows(State, State')
  <1>1. CASE Push
    BY <1>1, PushLeads DEF Push, Inv, Leads, Good
  <1>2. CASE NextButPush
    <2>1. Leads(State') /\ (~failed => Waits(State'))
      BY <1>2, FlushLeads, ToConsoleLeads, ToLogfileLeads, SetLimitLeads,
         ReopenFailsLeads, ChangeNameFullLeads, ChangeNameLeads DEF NextButPush
    <2> QED BY <1>2, <2>1 DEF NextButPush, Inv, Leads, Good
  <1>3. CASE WriteFails
    BY <1>3, WriteFailsLeads DEF WriteFails, Inv, Leads, Good
  <1> QED BY <1>1, <1>2, <1>3 DEF Next

LEMMA InvStart ==
  ASSUME Init
  PROVE  Inv
  <1>1. <<DefaultBase, 1>> \in Files /\ DefaultLimit \in Nat
    BY LoggerAssumption DEF Files
  <1>2. State \in States
    BY <1>1 DEF Init, State, States, Logs, Disks, Missing
  <1>3. ~(State.log.recordsLimit > 0 /\ Full(State))
    BY <1>1 DEF Init, State, Full
  <1>4. State.log.fd = State.log.logFileName /\ State.log.fd # NoFile /\ State.log.out = "fd"
    BY <1>1, LoggerAssumption DEF Init, State
  <1>5. failed \in BOOLEAN
    BY DEF Init
  <1> QED BY <1>2, <1>3, <1>4, <1>5 DEF Inv, Good, Named, Wired, Waits

LEMMA InvStep ==
  ASSUME Inv, [Next]_vars
  PROVE  Inv' /\ Grows(State, State')
  <1>1. CASE Next
    BY <1>1, NextLeads
  <1>2. CASE UNCHANGED vars
    <2>1. State' = State
      BY <1>2 DEF vars, State
    <2>2. Grows(State, State)
      BY GrowsSame DEF Inv, Good
    <2> QED BY <1>2, <2>1, <2>2 DEF vars, Inv, Good, Named, Wired, Waits
  <1> QED BY <1>1, <1>2

(* After any number of calls the state is good, and a full volume has been *)
(* left unless something stands in the way (Log.cpp:160-227).              *)
THEOREM Invariance == Spec => []Inv
  <1>1. Init => Inv
    BY InvStart
  <1>2. Inv /\ [Next]_vars => Inv'
    BY InvStep
  <1> QED BY <1>1, <1>2, PTL DEF Spec

(* The Logger and the files have their types, for any limits and lengths.  *)
THEOREM TypesKept == Spec => [](log \in Logs /\ disk \in Disks /\ failed \in BOOLEAN)
  <1>1. Inv => log \in Logs /\ disk \in Disks /\ failed \in BOOLEAN
    BY DEF Inv, Good, State, States
  <1> QED BY <1>1, Invariance, PTL

(* No sequence of failing opens and writes leaves the logfile open under   *)
(* another name than logFileName.                                          *)
THEOREM NameIsRestored == Spec => []FdIsNamedFile
  <1>1. Inv => FdIsNamedFile
    BY DEF Inv, Good, Named, State, FdIsNamedFile
  <1> QED BY <1>1, Invariance, PTL

(* out is connected to fd exactly while the logfile is open, or back at    *)
(* the standard output after a write that failed.                          *)
THEOREM OutIsConnected == Spec => []OutFollowsEngine
  <1>1. Inv => OutFollowsEngine
    BY DEF Inv, Good, Wired, State, OutFollowsEngine
  <1> QED BY <1>1, Invariance, PTL

(* A full volume is left at once when nothing stands in the way.           *)
THEOREM FullVolumesAreLeft == Spec => []RotatesInTime
  <1>1. Inv => RotatesInTime
    BY DEF Inv, Waits, CanRotate, State, RotatesInTime
  <1> QED BY <1>1, Invariance, PTL

(* No call takes a line away from a file.                                  *)
THEOREM FilesOnlyGrow == Spec => NothingTruncated
  <1>1. Inv /\ [Next]_vars => [\A f \in Files : disk'[f] >= disk[f]]_vars
    BY InvStep DEF Grows, State
  <1> QED BY <1>1, Invariance, PTL DEF Spec, NothingTruncated
=============================================================================
