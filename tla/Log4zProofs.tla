---------------------------- MODULE Log4zProofs ----------------------------
(***************************************************************************)
(* Proofs about Log4z for any threads, loggers and LogData: the writer     *)
(* runs when start returned true; a LogData never goes to a file whose     *)
(* replacement had returned before pushLog was called; and if no call of   *)
(* pushLog is under way when stop is called, nothing accepted is lost.     *)
(***************************************************************************)
EXTENDS Log4z, SequenceTheorems, TLAPS

Attributes ==
  /\ _enable \in [Loggers -> BOOLEAN] /\ _level \in [Loggers -> Levels]
  /\ _outfile \in [Loggers -> BOOLEAN] /\ _hotChange \in [Loggers -> BOOLEAN]
  /\ _path \in [Loggers -> Nat]
  /\ _hotLock \in Loggers \cup {None}
  /\ _hotLock # None => _path[_hotLock] > 0

\* An open file that needs no change is the one of the last change that returned.
Files ==
  /\ _handle \in [Loggers -> Nat \cup {None}]
  /\ \A g \in Loggers : _handle[g] # None /\ ~_hotChange[g] => _handle[g] = Settled[g]

\* A LogData exists before it is queued, treated or accepted.
Entries ==
  /\ entry \in [AllLogs -> Entry \cup {None}]
  /\ outcome \in [AllLogs -> Nat \cup {None, Dropped}]
  /\ accepted \subseteq AllLogs
  /\ \A l \in AllLogs : entry[l] = None => outcome[l] = None
  /\ \A l \in AllLogs : entry[l] # None => entry[l].since <= Settled[entry[l].logger]

Queue ==
  /\ _logs \in Seq(AllLogs)
  /\ \A i \in 1 .. Len(_logs) : entry[_logs[i]] # None

InPush ==
  /\ tpc \in [Threads -> {"idle", "push"}] /\ arg \in [Threads -> Logs \cup {None}]
  /\ \A t \in Threads : tpc[t] = "push" => arg[t] \in Logs /\ entry[arg[t]] # None

Treating == {"popped", "open", "create", "write"}

\* Between OpenLogger and WriteLog the file is the one OpenLogger decided on.
Writer ==
  /\ wpc \in {"none", "begin", "hello", "pop", "sleep", "close", "done"} \cup Treating
  /\ pLog \in AllLogs \cup {None}
  /\ pLog # None <=> wpc \in Treating
  /\ pLog # None => entry[pLog] # None
  /\ wpc \in {"none", "begin", "hello"} => entry[Hello] = None
  /\ wpc = "create" => _handle[entry[pLog].logger] = None
  /\ wpc = "write" => /\ _handle[entry[pLog].logger] \in Nat
                      /\ _handle[entry[pLog].logger] >= entry[pLog].since

\* The semaphore is posted after _runing is set, and only stop resets it.
Starting ==
  /\ _runing \in BOOLEAN /\ posted \in BOOLEAN
  /\ mpc \in {"new", "starting", "started", "failed", "stopping", "stopped"}
  /\ mpc = "new" => wpc = "none"
  /\ posted => wpc \notin {"none", "begin", "hello"}
  /\ mpc = "starting" /\ wpc # "begin" => _runing
  /\ mpc = "started" => _runing
  /\ mpc = "stopped" => wpc = "done"

\* With callers joined nobody pushes once _runing is reset, so the queue the
\* writer found empty stays empty.
Joined ==
  JoinFirst =>
    /\ ~_runing => \A t \in Threads : tpc[t] # "push"
    /\ wpc \in {"close", "done"} => ~_runing /\ _logs = <<>>

\* An accepted LogData is in the queue, in the writer's hands, or treated.
Kept ==
  \A l \in accepted :
    outcome[l] # None \/ pLog = l \/ \E i \in 1 .. Len(_logs) : _logs[i] = l

Inv ==
  /\ Attributes /\ Files /\ Entries /\ Queue /\ InPush /\ Writer /\ Starting
  /\ NotToOldFile /\ Joined /\ Kept

-----------------------------------------------------------------------------
(* What the actions do to the attributes                                   *)

LEMMA Markers == /\ None # Dropped /\ None \notin AllLogs /\ None \notin Nat /\ Dropped \notin Nat
                 /\ None \notin Entry /\ None \notin Loggers /\ Main \in Loggers
                 /\ Hello \in AllLogs /\ Hello \notin Logs
BY Log4zAssumption DEF AllLogs

LEMMA SettledTyped == Attributes => Settled \in [Loggers -> Nat]
<1> SUFFICES ASSUME Attributes, NEW g \in Loggers
             PROVE  (IF _hotLock = g THEN _path[g] - 1 ELSE _path[g]) \in Nat
  BY DEF Settled
<1>1. _path[g] \in Nat /\ (_hotLock = g => _path[g] > 0)
  BY Markers DEF Attributes
<1> QED BY <1>1

LEMMA SettledTypedNext == Attributes' => Settled' \in [Loggers -> Nat]
<1> SUFFICES ASSUME Attributes', NEW g \in Loggers
             PROVE  (IF _hotLock' = g THEN _path'[g] - 1 ELSE _path'[g]) \in Nat
  BY DEF Settled
<1>1. _path'[g] \in Nat /\ (_hotLock' = g => _path'[g] > 0)
  BY Markers DEF Attributes
<1> QED BY <1>1

\* While nobody holds _hotLock every change has been announced.
LEMMA SettledUnlocked ==
  ASSUME NEW g \in Loggers, _hotLock = None
  PROVE  Settled[g] = _path[g]
BY Markers DEF Settled

\* A change of a path is settled when it is announced, and no announcement is
\* taken back.
LEMMA Announced ==
  ASSUME Attributes, SetAttribute \/ PathChanged
  PROVE  /\ Attributes'
         /\ \A g \in Loggers : /\ Settled'[g] >= Settled[g]
                               /\ ~_hotChange'[g] => ~_hotChange[g] /\ Settled'[g] = Settled[g]
<1>0. Settled \in [Loggers -> Nat]
  BY SettledTyped
<1>1. ASSUME NEW g \in Loggers, NEW b \in BOOLEAN, enableLogger(g, b)
      PROVE  /\ Attributes' /\ Settled' = Settled
             /\ \A h \in Loggers : ~_hotChange'[h] => ~_hotChange[h]
  <2>1. /\ _enable' = [_enable EXCEPT ![g] = b]
        /\ UNCHANGED <<_level, _outfile, _path, _hotLock>>
        /\ _hotChange' = [_hotChange EXCEPT ![g] = _hotChange[g] \/ b]
    BY <1>1 DEF enableLogger
  <2>2. _hotChange' \in [Loggers -> BOOLEAN] /\ _enable' \in [Loggers -> BOOLEAN]
    BY <2>1 DEF Attributes
  <2>3. \A h \in Loggers : ~_hotChange'[h] => ~_hotChange[h]
    BY <2>1 DEF Attributes
  <2> QED BY <2>1, <2>2, <2>3 DEF Attributes, Settled
<1>2. ASSUME NEW g \in Loggers, NEW b \in BOOLEAN, setLoggerOutFile(g, b)
      PROVE  Attributes' /\ UNCHANGED <<Settled, _hotChange>>
  BY <1>2 DEF setLoggerOutFile, Attributes, Settled
<1>3. ASSUME NEW g \in Loggers, NEW level \in Levels, setLoggerLevel(g, level)
      PROVE  Attributes' /\ UNCHANGED <<Settled, _hotChange>>
  BY <1>3 DEF setLoggerLevel, Attributes, Settled
<1>4. ASSUME NEW g \in Loggers, setLoggerPath(g)
      PROVE  Attributes' /\ UNCHANGED <<Settled, _hotChange>>
  <2>1. /\ _hotLock = None /\ _hotLock' = g /\ _path' = [_path EXCEPT ![g] = _path[g] + 1]
        /\ UNCHANGED <<_enable, _level, _outfile, _hotChange>>
    BY <1>4 DEF setLoggerPath
  <2>2. /\ _path' \in [Loggers -> Nat] /\ _path'[g] = _path[g] + 1 /\ _path[g] \in Nat
        /\ \A h \in Loggers \ {g} : _path'[h] = _path[h]
    BY <2>1 DEF Attributes
  <2>3. \A h \in Loggers : Settled'[h] = Settled[h]
    BY <2>1, <2>2, Markers DEF Settled
  <2>4. Settled' = Settled
    BY <2>3 DEF Settled
  <2> QED BY <2>1, <2>2, <2>4 DEF Attributes
<1>5. CASE PathChanged
  <2>1. /\ _hotLock \in Loggers /\ _hotLock' = None /\ _path' = _path
        /\ _hotChange' = [_hotChange EXCEPT ![_hotLock] = TRUE]
        /\ UNCHANGED <<_enable, _level, _outfile>>
    BY <1>5 DEF PathChanged, Attributes
  <2>2. Attributes'
    BY <2>1 DEF Attributes
  <2>3. \A h \in Loggers : Settled'[h] = _path[h]
    BY <2>1, Markers DEF Settled
  <2>4. \A h \in Loggers : Settled[h] = IF _hotLock = h THEN _path[h] - 1 ELSE _path[h]
    BY DEF Settled
  <2>5. \A h \in Loggers : Settled'[h] >= Settled[h]
    BY <2>3, <2>4 DEF Attributes
  <2>6. ASSUME NEW h \in Loggers, ~_hotChange'[h] PROVE h # _hotLock /\ ~_hotChange[h]
    BY <2>1, <2>6 DEF Attributes
  <2> QED BY <2>2, <2>3, <2>4, <2>5, <2>6
<1>6. CASE SetAttribute
  <2>1. PICK g \in Loggers :
          \/ \E b \in BOOLEAN : enableLogger(g, b) \/ setLoggerOutFile(g, b)
          \/ \E level \in Levels : setLoggerLevel(g, level)
          \/ setLoggerPath(g)
    BY <1>6 DEF SetAttribute
  <2>2. Attributes' /\ Settled' = Settled /\ \A h \in Loggers : ~_hotChange'[h] => ~_hotChange[h]
    BY <1>1, <1>2, <1>3, <1>4, <2>1
  <2> QED BY <1>0, <2>2
<1> QED BY <1>5, <1>6

LEMMA AttributesStep == Inv /\ [Next]_vars => Attributes'
<1> SUFFICES ASSUME Attributes, [Next]_vars PROVE Attributes'
  BY DEF Inv
<1>1. CASE Start
  BY <1>1 DEF Start, Attributes, attrVars, Settled
<1>2. CASE StartReturns
  BY <1>2 DEF StartReturns, Attributes, attrVars, Settled
<1>3. CASE StartTimesOut
  BY <1>3 DEF StartTimesOut, Attributes, attrVars, Settled
<1>4. CASE StopBegins
  BY <1>4 DEF StopBegins, Attributes, attrVars, Settled
<1>5. CASE StopReturns
  BY <1>5 DEF StopReturns, Attributes, attrVars, Settled
<1>6. CASE Begin
  BY <1>6 DEF Begin, Attributes, attrVars, Settled
<1>7. CASE SayHello
  BY <1>7 DEF SayHello, Attributes, attrVars, Settled
<1>8. CASE PopLog
  BY <1>8 DEF PopLog, Attributes, attrVars, Settled
<1>9. CASE CheckLog
  BY <1>9 DEF CheckLog, Attributes, attrVars, Settled
<1>10. CASE OpenLogger
  BY <1>10 DEF OpenLogger, Attributes, attrVars, Settled
<1>11. CASE CreateFile
  <2>1. /\ _hotChange' = [_hotChange EXCEPT ![entry[pLog].logger] = FALSE]
        /\ \/ _outfile' = _outfile
           \/ _outfile' = [_outfile EXCEPT ![entry[pLog].logger] = FALSE]
        /\ UNCHANGED <<_enable, _level, _path, _hotLock>>
    BY <1>11 DEF CreateFile
  <2> QED BY <2>1 DEF Attributes
<1>12. CASE WriteLog
  BY <1>12 DEF WriteLog, Attributes, attrVars, Settled
<1>13. CASE Flush
  BY <1>13 DEF Flush, Attributes, attrVars, Settled
<1>14. CASE Quit
  BY <1>14 DEF Quit, Attributes, attrVars, Settled
<1>15. CASE NextRound
  BY <1>15 DEF NextRound, Attributes, attrVars, Settled
<1>16. CASE CloseAll
  BY <1>16 DEF CloseAll, Attributes
<1>17. ASSUME NEW t \in Threads, NEW l \in Logs, NEW g \in Loggers, NEW level \in Levels,
             PushBegins(t, l, g, level)
       PROVE Attributes'
  BY <1>17 DEF PushBegins, Attributes, attrVars, Settled
<1>18. ASSUME NEW t \in Threads, PushReturns(t) PROVE Attributes'
  BY <1>18 DEF PushReturns, Attributes, attrVars, Settled
<1>19. CASE SetAttribute \/ PathChanged
  BY <1>19, Announced
<1>20. CASE UNCHANGED vars
  BY <1>20 DEF vars, Attributes, attrVars, Settled
<1> QED BY <1>1, <1>2, <1>3, <1>4, <1>5, <1>6, <1>7, <1>8, <1>9, <1>10, <1>11, <1>12, <1>13,
           <1>14, <1>15, <1>16, <1>17, <1>18, <1>19, <1>20, Zenon DEF Next, run, Application

LEMMA FilesStep == Inv /\ [Next]_vars => Files'
<1> SUFFICES ASSUME Attributes, Files, Entries, Writer, [Next]_vars PROVE Files'
  BY DEF Inv
<1>1. CASE Start
  BY <1>1 DEF Start, Files, attrVars, Settled
<1>2. CASE StartReturns
  BY <1>2 DEF StartReturns, Files, attrVars, Settled
<1>3. CASE StartTimesOut
  BY <1>3 DEF StartTimesOut, Files, attrVars, Settled
<1>4. CASE StopBegins
  BY <1>4 DEF StopBegins, Files, attrVars, Settled
<1>5. CASE StopReturns
  BY <1>5 DEF StopReturns, Files, attrVars, Settled
<1>6. CASE Begin
  BY <1>6 DEF Begin, Files, attrVars, Settled
<1>7. CASE SayHello
  BY <1>7 DEF SayHello, Files, attrVars, Settled
<1>8. CASE PopLog
  BY <1>8 DEF PopLog, Files, attrVars, Settled
<1>9. CASE CheckLog
  BY <1>9 DEF CheckLog, Files, attrVars, Settled
<1>10. CASE OpenLogger
  <2>1. CASE _handle' = _handle
    BY <1>10, <2>1 DEF OpenLogger, Files, attrVars, Settled
  <2>2. ASSUME NEW h, _handle' = [_handle EXCEPT ![entry[pLog].logger] = h],
               h = None \/ h = _handle[entry[pLog].logger]
        PROVE  Files'
    BY <1>10, <2>2 DEF OpenLogger, Files, attrVars, Settled
  <2>3. \/ _handle' = _handle
        \/ \E h : /\ _handle' = [_handle EXCEPT ![entry[pLog].logger] = h]
                  /\ h = None \/ h = _handle[entry[pLog].logger]
    BY <1>10 DEF OpenLogger
  <2> QED BY <2>1, <2>2, <2>3
<1>11. CASE CreateFile
  <2> DEFINE g == entry[pLog].logger
  <2>1. g \in Loggers
    BY <1>11 DEF CreateFile, Writer, Entries, Entry, Treating
  <2>2. /\ _hotChange' = [_hotChange EXCEPT ![g] = FALSE]
        /\ _handle' = [_handle EXCEPT ![g] = _path[g]] \/ _handle' = _handle
        /\ _handle[g] = None
    BY <1>11 DEF CreateFile, Writer
  <2>3. Settled' = Settled
    BY <1>11 DEF CreateFile, Settled
  <2>4. Settled[g] = _path[g] /\ Settled[g] \in Nat
    BY <1>11, <2>1, SettledUnlocked, SettledTyped DEF CreateFile
  <2> QED BY <2>1, <2>2, <2>3, <2>4 DEF Files, Attributes
<1>12. CASE WriteLog
  BY <1>12 DEF WriteLog, Files, attrVars, Settled
<1>13. CASE Flush
  BY <1>13 DEF Flush, Files, attrVars, Settled
<1>14. CASE Quit
  BY <1>14 DEF Quit, Files, attrVars, Settled
<1>15. CASE NextRound
  BY <1>15 DEF NextRound, Files, attrVars, Settled
<1>16. CASE CloseAll
  BY <1>16 DEF CloseAll, Files, Settled
<1>17. ASSUME NEW t \in Threads, NEW l \in Logs, NEW g \in Loggers, NEW level \in Levels,
             PushBegins(t, l, g, level)
       PROVE Files'
  BY <1>17 DEF PushBegins, Files, attrVars, Settled
<1>18. ASSUME NEW t \in Threads, PushReturns(t) PROVE Files'
  BY <1>18 DEF PushReturns, Files, attrVars, Settled
<1>19. CASE SetAttribute \/ PathChanged
  <2>1. \A g \in Loggers : ~_hotChange'[g] => ~_hotChange[g] /\ Settled'[g] = Settled[g]
    BY <1>19, Announced
  <2>2. _handle' = _handle
    BY <1>19 DEF SetAttribute, PathChanged
  <2> QED BY <2>1, <2>2 DEF Files
<1>20. CASE UNCHANGED vars
  BY <1>20 DEF vars, Files, attrVars, Settled
<1> QED BY <1>1, <1>2, <1>3, <1>4, <1>5, <1>6, <1>7, <1>8, <1>9, <1>10, <1>11, <1>12, <1>13,
           <1>14, <1>15, <1>16, <1>17, <1>18, <1>19, <1>20, Zenon DEF Next, run, Application

\* The LogData the writer treats, and its logger.
LEMMA InHand ==
  ASSUME Entries, Writer, wpc \in Treating
  PROVE  /\ pLog \in AllLogs /\ pLog # None /\ entry[pLog] \in Entry
         /\ entry[pLog].logger \in Loggers /\ entry[pLog].since \in Nat
<1>1. pLog \in AllLogs /\ pLog # None /\ entry[pLog] # None
  BY DEF Writer
<1>2. entry[pLog] \in Entry
  BY <1>1 DEF Entries
<1> QED BY <1>1, <1>2 DEF Entry

LEMMA DeletedEntries ==
  ASSUME Entries, Writer, wpc \in Treating, NEW r \in Nat \cup {Dropped}, Deleted(r),
         UNCHANGED <<entry, accepted, Settled>>
  PROVE  Entries'
<1>1. pLog \in AllLogs /\ entry[pLog] # None /\ outcome' = [outcome EXCEPT ![pLog] = r]
  BY InHand, Markers DEF Deleted
<1> QED BY <1>1 DEF Entries

LEMMA EntriesStep == Inv /\ [Next]_vars => Entries'
<1> SUFFICES ASSUME Attributes, Files, Entries, InPush, Writer, [Next]_vars PROVE Entries'
  BY DEF Inv
<1>1. CASE Start
  BY <1>1 DEF Start, Entries, histVars, attrVars, Settled
<1>2. CASE StartReturns
  BY <1>2 DEF StartReturns, Entries, histVars, attrVars, Settled
<1>3. CASE StartTimesOut
  BY <1>3 DEF StartTimesOut, Entries, histVars, attrVars, Settled
<1>4. CASE StopBegins
  BY <1>4 DEF StopBegins, Entries, histVars, attrVars, Settled
<1>5. CASE StopReturns
  BY <1>5 DEF StopReturns, Entries, histVars, attrVars, Settled
<1>6. CASE Begin
  BY <1>6 DEF Begin, Entries, histVars, attrVars, Settled
<1>7. CASE SayHello
  <2>1. /\ entry' = [entry EXCEPT ![Hello] = [logger |-> Main, level |-> 1, since |-> Settled[Main]]]
        /\ UNCHANGED <<outcome, Settled>> /\ (accepted' = accepted \/ accepted' = accepted \cup {Hello})
    BY <1>7 DEF SayHello, Push, attrVars, Settled
  <2>2. [logger |-> Main, level |-> 1, since |-> Settled[Main]] \in Entry /\ Settled[Main] \in Nat
    BY Markers, SettledTyped DEF Entry, Levels
  <2> QED BY <2>1, <2>2, Markers DEF Entries
<1>8. CASE PopLog
  BY <1>8 DEF PopLog, Entries, histVars, attrVars, Settled
<1>9. CASE CheckLog
  <2>1. /\ wpc \in Treating /\ UNCHANGED <<entry, accepted, Settled>>
        /\ Deleted(Dropped) \/ UNCHANGED outcome
    BY <1>9 DEF CheckLog, Treating, attrVars, Settled
  <2>2. CASE Deleted(Dropped)
    BY <2>1, <2>2, DeletedEntries
  <2>3. CASE UNCHANGED outcome
    BY <2>1, <2>3 DEF Entries
  <2> QED BY <2>1, <2>2, <2>3
<1>10. CASE OpenLogger
  <2>1. /\ wpc \in Treating /\ UNCHANGED <<entry, accepted, Settled>>
        /\ Deleted(Dropped) \/ UNCHANGED outcome
    BY <1>10 DEF OpenLogger, Treating, attrVars, Settled
  <2>2. CASE Deleted(Dropped)
    BY <2>1, <2>2, DeletedEntries
  <2>3. CASE UNCHANGED outcome
    BY <2>1, <2>3 DEF Entries
  <2> QED BY <2>1, <2>2, <2>3
<1>11. CASE CreateFile
  <2>1. /\ wpc \in Treating /\ UNCHANGED <<entry, accepted, Settled>>
        /\ Deleted(Dropped) \/ UNCHANGED outcome
    BY <1>11 DEF CreateFile, Treating, attrVars, Settled
  <2>2. CASE Deleted(Dropped)
    BY <2>1, <2>2, DeletedEntries
  <2>3. CASE UNCHANGED outcome
    BY <2>1, <2>3 DEF Entries
  <2> QED BY <2>1, <2>2, <2>3
<1>12. CASE WriteLog
  <2>1. /\ wpc \in Treating /\ UNCHANGED <<entry, accepted, Settled>>
        /\ Deleted(_handle[entry[pLog].logger]) /\ _handle[entry[pLog].logger] \in Nat
    BY <1>12 DEF WriteLog, Treating, attrVars, Settled, Writer
  <2> QED BY <2>1, DeletedEntries
<1>13. CASE Flush
  BY <1>13 DEF Flush, Entries, histVars, attrVars, Settled
<1>14. CASE Quit
  BY <1>14 DEF Quit, Entries, histVars, attrVars, Settled
<1>15. CASE NextRound
  BY <1>15 DEF NextRound, Entries, histVars, attrVars, Settled
<1>16. CASE CloseAll
  BY <1>16 DEF CloseAll, Entries, histVars, attrVars, Settled
<1>17. ASSUME NEW t \in Threads, NEW l \in Logs, NEW g \in Loggers, NEW level \in Levels,
             PushBegins(t, l, g, level)
       PROVE Entries'
  <2>1. /\ entry' = [entry EXCEPT ![l] = [logger |-> g, level |-> level, since |-> Settled[g]]]
        /\ UNCHANGED <<outcome, accepted, Settled>>
    BY <1>17 DEF PushBegins, histVars, attrVars, Settled
  <2>2. [logger |-> g, level |-> level, since |-> Settled[g]] \in Entry /\ Settled[g] \in Nat
    BY SettledTyped DEF Entry
  <2> QED BY <2>1, <2>2, Markers DEF Entries, AllLogs
<1>18. ASSUME NEW t \in Threads, PushReturns(t) PROVE Entries'
  BY <1>18 DEF PushReturns, Push, Entries, InPush, AllLogs, attrVars, Settled
<1>19. CASE SetAttribute \/ PathChanged
  <2>1. /\ \A g \in Loggers : Settled'[g] >= Settled[g]
        /\ Settled' \in [Loggers -> Nat]
    BY <1>19, Announced, SettledTypedNext
  <2>2. UNCHANGED <<entry, outcome, accepted>>
    BY <1>19 DEF SetAttribute, PathChanged, histVars
  <2>3. ASSUME NEW l \in AllLogs, entry[l] # None PROVE entry[l].since <= Settled'[entry[l].logger]
    <3>1. entry[l].logger \in Loggers /\ entry[l].since \in Nat /\ entry[l].since <= Settled[entry[l].logger]
      BY <2>3 DEF Entries, Entry
    <3>2. /\ Settled[entry[l].logger] \in Nat /\ Settled'[entry[l].logger] \in Nat
          /\ Settled'[entry[l].logger] >= Settled[entry[l].logger]
      BY <2>1, <3>1, SettledTyped
    <3> QED BY <3>1, <3>2
  <2> QED BY <2>2, <2>3 DEF Entries
<1>20. CASE UNCHANGED vars
  BY <1>20 DEF vars, Entries, histVars, attrVars, Settled
<1> QED BY <1>1, <1>2, <1>3, <1>4, <1>5, <1>6, <1>7, <1>8, <1>9, <1>10, <1>11, <1>12, <1>13,
           <1>14, <1>15, <1>16, <1>17, <1>18, <1>19, <1>20, Zenon DEF Next, run, Application

LEMMA QueueAppend ==
  ASSUME Queue, NEW l \in AllLogs, entry[l] # None, _logs' = Append(_logs, l), entry' = entry
  PROVE  Queue'
<1>1. /\ _logs' \in Seq(AllLogs) /\ Len(_logs') = Len(_logs) + 1 /\ _logs'[Len(_logs) + 1] = l
      /\ \A i \in 1 .. Len(_logs) : _logs'[i] = _logs[i]
  BY AppendProperties DEF Queue
<1>2. ASSUME NEW i \in 1 .. Len(_logs') PROVE entry[_logs'[i]] # None
  <2>1. i \in 1 .. Len(_logs) \/ i = Len(_logs) + 1
    BY <1>1, LenProperties DEF Queue
  <2> QED BY <1>1, <2>1 DEF Queue
<1> QED BY <1>1, <1>2 DEF Queue

LEMMA EntriesOfHello ==
  ASSUME Attributes, Entries, SayHello
  PROVE  entry'[Hello] \in Entry
<1>1. entry'[Hello] = [logger |-> Main, level |-> 1, since |-> Settled[Main]]
  BY Markers DEF SayHello, Entries
<1>2. [logger |-> Main, level |-> 1, since |-> Settled[Main]] \in Entry
  BY Markers, SettledTyped DEF Entry, Levels
<1> QED BY <1>1, <1>2

LEMMA QueueStep == Inv /\ [Next]_vars => Queue'
<1> SUFFICES ASSUME Attributes, Entries, Queue, InPush, Writer, [Next]_vars PROVE Queue'
  BY DEF Inv
<1>0. Len(_logs) \in Nat /\ \A i \in 1 .. Len(_logs) : _logs[i] \in AllLogs
  BY LenProperties DEF Queue
<1>1. CASE Start
  BY <1>1 DEF Start, Queue
<1>2. CASE StartReturns
  BY <1>2 DEF StartReturns, Queue
<1>3. CASE StartTimesOut
  BY <1>3 DEF StartTimesOut, Queue
<1>4. CASE StopBegins
  BY <1>4 DEF StopBegins, Queue
<1>5. CASE StopReturns
  BY <1>5 DEF StopReturns, Queue
<1>6. CASE Begin
  BY <1>6 DEF Begin, Queue
<1>7. CASE SayHello
  <2>1. /\ entry' = [entry EXCEPT ![Hello] = [logger |-> Main, level |-> 1, since |-> Settled[Main]]]
        /\ entry[Hello] = None
        /\ _logs' = _logs \/ _logs' = Append(_logs, Hello)
    BY <1>7 DEF SayHello, Push, WGoes, Writer
  <2>2. entry'[Hello] # None
    BY <1>7, EntriesOfHello, Markers
  <2>3. ASSUME NEW i \in 1 .. Len(_logs) PROVE entry'[_logs[i]] # None
    <3>1. _logs[i] # Hello /\ _logs[i] \in AllLogs /\ entry[_logs[i]] # None
      BY <1>0, <2>1 DEF Queue
    <3> QED BY <2>1, <3>1 DEF Entries
  <2>4. CASE _logs' = _logs
    BY <2>3, <2>4 DEF Queue
  <2>5. CASE _logs' = Append(_logs, Hello)
    <3>1. /\ _logs' \in Seq(AllLogs) /\ Len(_logs') = Len(_logs) + 1 /\ _logs'[Len(_logs) + 1] = Hello
          /\ \A i \in 1 .. Len(_logs) : _logs'[i] = _logs[i]
      BY <2>5, Markers, AppendProperties DEF Queue
    <3>2. ASSUME NEW i \in 1 .. Len(_logs') PROVE entry'[_logs'[i]] # None
      <4>1. i \in 1 .. Len(_logs) \/ i = Len(_logs) + 1
        BY <1>0, <3>1
      <4> QED BY <2>2, <2>3, <3>1, <4>1
    <3> QED BY <3>1, <3>2 DEF Queue
  <2> QED BY <2>1, <2>4, <2>5
<1>8. CASE PopLog
  <2>1. _logs' = Tail(_logs) /\ _logs # <<>> /\ entry' = entry
    BY <1>8 DEF PopLog
  <2>2. /\ _logs' \in Seq(AllLogs) /\ Len(_logs') = Len(_logs) - 1
        /\ \A i \in 1 .. Len(_logs') : _logs'[i] = _logs[i + 1]
    BY <2>1, HeadTailProperties DEF Queue
  <2>3. ASSUME NEW i \in 1 .. Len(_logs') PROVE entry[_logs'[i]] # None
    <3>1. i + 1 \in 1 .. Len(_logs)
      BY <1>0, <2>2
    <3>2. entry[_logs[i + 1]] # None
      BY <3>1 DEF Queue
    <3> QED BY <2>2, <3>2
  <2> QED BY <2>1, <2>2, <2>3 DEF Queue
<1>9. CASE CheckLog
  BY <1>9 DEF CheckLog, Queue
<1>10. CASE OpenLogger
  BY <1>10 DEF OpenLogger, Queue
<1>11. CASE CreateFile
  BY <1>11 DEF CreateFile, Queue
<1>12. CASE WriteLog
  BY <1>12 DEF WriteLog, Queue
<1>13. CASE Flush
  BY <1>13 DEF Flush, Queue
<1>14. CASE Quit
  BY <1>14 DEF Quit, Queue
<1>15. CASE NextRound
  BY <1>15 DEF NextRound, Queue
<1>16. CASE CloseAll
  BY <1>16 DEF CloseAll, Queue
<1>17. ASSUME NEW t \in Threads, NEW l \in Logs, NEW g \in Loggers, NEW level \in Levels,
             PushBegins(t, l, g, level)
       PROVE Queue'
  <2>1. /\ entry' = [entry EXCEPT ![l] = [logger |-> g, level |-> level, since |-> Settled[g]]]
        /\ entry[l] = None /\ _logs' = _logs
    BY <1>17 DEF PushBegins
  <2>2. ASSUME NEW i \in 1 .. Len(_logs) PROVE entry'[_logs[i]] # None
    <3>1. _logs[i] # l /\ _logs[i] \in AllLogs /\ entry[_logs[i]] # None
      BY <1>0, <2>1 DEF Queue
    <3> QED BY <2>1, <3>1 DEF Entries
  <2> QED BY <2>1, <2>2 DEF Queue
<1>18. ASSUME NEW t \in Threads, PushReturns(t) PROVE Queue'
  <2>1. _logs' = Append(_logs, arg[t]) /\ entry' = entry /\ arg[t] \in AllLogs /\ entry[arg[t]] # None
    BY <1>18 DEF PushReturns, Push, InPush, AllLogs
  <2> QED BY <2>1, QueueAppend
<1>19. CASE SetAttribute \/ PathChanged
  BY <1>19 DEF SetAttribute, PathChanged, Queue
<1>20. CASE UNCHANGED vars
  BY <1>20 DEF vars, Queue
<1> QED BY <1>1, <1>2, <1>3, <1>4, <1>5, <1>6, <1>7, <1>8, <1>9, <1>10, <1>11, <1>12, <1>13,
           <1>14, <1>15, <1>16, <1>17, <1>18, <1>19, <1>20, Zenon DEF Next, run, Application

LEMMA InPushStep == Inv /\ [Next]_vars => InPush'
<1> SUFFICES ASSUME Attributes, Entries, InPush, Writer, [Next]_vars PROVE InPush'
  BY DEF Inv
<1>1. CASE Start
  BY <1>1 DEF Start, InPush, threadVars
<1>2. CASE StartReturns
  BY <1>2 DEF StartReturns, InPush, threadVars
<1>3. CASE StartTimesOut
  BY <1>3 DEF StartTimesOut, InPush, threadVars
<1>4. CASE StopBegins
  BY <1>4 DEF StopBegins, InPush, threadVars
<1>5. CASE StopReturns
  BY <1>5 DEF StopReturns, InPush, threadVars
<1>6. CASE Begin
  BY <1>6 DEF Begin, InPush, threadVars
<1>7. CASE SayHello
  <2>1. /\ entry' = [entry EXCEPT ![Hello] = [logger |-> Main, level |-> 1, since |-> Settled[Main]]]
        /\ UNCHANGED <<tpc, arg>>
    BY <1>7 DEF SayHello, threadVars
  <2>2. ASSUME NEW u \in Threads, tpc[u] = "push" PROVE arg[u] \in Logs /\ entry'[arg[u]] # None
    <3>1. arg[u] \in Logs /\ entry[arg[u]] # None /\ arg[u] # Hello
      BY <2>2, Markers DEF InPush
    <3> QED BY <2>1, <3>1 DEF Entries, AllLogs
  <2> QED BY <2>1, <2>2 DEF InPush
<1>8. CASE PopLog
  BY <1>8 DEF PopLog, InPush, threadVars
<1>9. CASE CheckLog
  BY <1>9 DEF CheckLog, InPush, threadVars
<1>10. CASE OpenLogger
  BY <1>10 DEF OpenLogger, InPush, threadVars
<1>11. CASE CreateFile
  BY <1>11 DEF CreateFile, InPush, threadVars
<1>12. CASE WriteLog
  BY <1>12 DEF WriteLog, InPush, threadVars
<1>13. CASE Flush
  BY <1>13 DEF Flush, InPush, threadVars
<1>14. CASE Quit
  BY <1>14 DEF Quit, InPush, threadVars
<1>15. CASE NextRound
  BY <1>15 DEF NextRound, InPush, threadVars
<1>16. CASE CloseAll
  BY <1>16 DEF CloseAll, InPush, threadVars
<1>17. ASSUME NEW t \in Threads, NEW l \in Logs, NEW g \in Loggers, NEW level \in Levels,
             PushBegins(t, l, g, level)
       PROVE InPush'
  <2>1. /\ entry' = [entry EXCEPT ![l] = [logger |-> g, level |-> level, since |-> Settled[g]]]
        /\ entry[l] = None /\ tpc[t] = "idle"
        /\ tpc' = [tpc EXCEPT ![t] = "push"] /\ arg' = [arg EXCEPT ![t] = l]
    BY <1>17 DEF PushBegins
  <2>2. [logger |-> g, level |-> level, since |-> Settled[g]] \in Entry
    BY SettledTyped DEF Entry
  <2>3. entry'[l] # None
    BY <2>1, <2>2, Markers DEF Entries, AllLogs
  <2>4. ASSUME NEW u \in Threads, tpc'[u] = "push" PROVE arg'[u] \in Logs /\ entry'[arg'[u]] # None
    <3>1. CASE u = t
      BY <2>1, <2>3, <3>1 DEF InPush
    <3>2. CASE u # t
      <4>1. tpc[u] = "push" /\ arg'[u] = arg[u]
        BY <2>1, <2>4, <3>2 DEF InPush
      <4>2. arg[u] \in Logs /\ entry[arg[u]] # None /\ arg[u] # l
        BY <2>1, <4>1 DEF InPush
      <4> QED BY <2>1, <4>1, <4>2 DEF Entries, AllLogs
    <3> QED BY <3>1, <3>2
  <2> QED BY <2>1, <2>4 DEF InPush
<1>18. ASSUME NEW t \in Threads, PushReturns(t) PROVE InPush'
  <2>1. /\ tpc' = [tpc EXCEPT ![t] = "idle"] /\ arg' = [arg EXCEPT ![t] = None] /\ entry' = entry
    BY <1>18 DEF PushReturns
  <2> QED BY <2>1 DEF InPush
<1>19. CASE SetAttribute \/ PathChanged
  BY <1>19 DEF SetAttribute, PathChanged, InPush, threadVars
<1>20. CASE UNCHANGED vars
  BY <1>20 DEF vars, InPush, threadVars
<1> QED BY <1>1, <1>2, <1>3, <1>4, <1>5, <1>6, <1>7, <1>8, <1>9, <1>10, <1>11, <1>12, <1>13,
           <1>14, <1>15, <1>16, <1>17, <1>18, <1>19, <1>20, Zenon DEF Next, run, Application

\* Through with its LogData, the writer goes back to the queue.
LEMMA DeletedWriter ==
  ASSUME Entries, Writer, wpc \in Treating, NEW r, Deleted(r)
  PROVE  Writer'
BY Markers DEF Deleted, Writer, Treating

LEMMA WriterStep == Inv /\ [Next]_vars => Writer'
<1> SUFFICES ASSUME Inv, [Next]_vars PROVE Writer'
  OBVIOUS
<1>0. Attributes /\ Files /\ Entries /\ Queue /\ InPush /\ Writer /\ Starting
  BY DEF Inv
<1>1. CASE Start
  BY <1>0, <1>1 DEF Start, WGoes, Goes, Writer, Treating, Starting
<1>2. CASE StartReturns
  BY <1>0, <1>2 DEF StartReturns, WGoes, Goes, Writer, Treating
<1>3. CASE StartTimesOut
  BY <1>0, <1>3 DEF StartTimesOut, WGoes, Goes, Writer, Treating
<1>4. CASE StopBegins
  BY <1>0, <1>4 DEF StopBegins, WGoes, Goes, Writer, Treating
<1>5. CASE StopReturns
  BY <1>0, <1>5 DEF StopReturns, WGoes, Goes, Writer, Treating
<1>6. CASE Begin
  BY <1>0, <1>6 DEF Begin, WGoes, Goes, Writer, Treating
<1>7. CASE SayHello
  BY <1>0, <1>7 DEF SayHello, WGoes, Goes, Writer, Treating
<1>8. CASE PopLog
  <2>1. /\ wpc = "pop" /\ wpc' = "popped" /\ pLog' = Head(_logs) /\ _logs # <<>>
        /\ UNCHANGED <<entry, _handle>>
    BY <1>8 DEF PopLog, WGoes
  <2>2. Head(_logs) \in AllLogs /\ entry[Head(_logs)] # None
    <3>1. _logs \in Seq(AllLogs) /\ Len(_logs) \in Nat /\ Len(_logs) # 0
      BY <1>0, <2>1, LenProperties, EmptySeq DEF Queue
    <3>2. 1 \in 1 .. Len(_logs) /\ Head(_logs) = _logs[1]
      BY <2>1, <3>1
    <3> QED BY <1>0, <3>1, <3>2, ElementOfSeq DEF Queue
  <2> QED BY <1>0, <2>1, <2>2, Markers DEF Writer, Treating
<1>9. CASE CheckLog
  <2>1. CASE Deleted(Dropped)
    BY <1>0, <1>9, <2>1, DeletedWriter DEF CheckLog, Treating, Writer
  <2>2. CASE wpc' = "open" /\ UNCHANGED <<pLog, outcome>>
    BY <1>0, <1>9, <2>2 DEF CheckLog, Writer, Treating
  <2> QED BY <1>9, <2>1, <2>2 DEF CheckLog
<1>10. CASE OpenLogger
  <2> DEFINE g == entry[pLog].logger
  <2>1. CASE Deleted(Dropped)
    BY <1>0, <1>10, <2>1, DeletedWriter DEF OpenLogger, Treating
  <2>2. ASSUME NEW roll \in BOOLEAN,
               _handle' = [_handle EXCEPT ![g] = IF roll \/ _hotChange[g] THEN None ELSE @],
               wpc' = IF _handle'[g] = None THEN "create" ELSE "write",
               UNCHANGED <<pLog, outcome>>
        PROVE  Writer'
    <3>1. g \in Loggers /\ entry[pLog] # None /\ entry' = entry /\ entry[pLog].since \in Nat
          /\ pLog \in AllLogs /\ pLog # None /\ wpc = "open"
      BY <1>0, <1>10, InHand, Markers DEF OpenLogger, Treating
    <3>2. _handle'[g] = None \/ (_handle[g] # None /\ ~_hotChange[g] /\ _handle'[g] = _handle[g])
      BY <1>0, <2>2, <3>1 DEF Files
    <3>3. CASE _handle'[g] = None
      BY <1>0, <2>2, <3>1, <3>3 DEF Writer, Treating
    <3>4. CASE _handle'[g] # None
      <4>1. _handle'[g] = Settled[g] /\ Settled[g] \in Nat /\ Settled[g] >= entry[pLog].since
        BY <1>0, <3>1, <3>2, <3>4, SettledTyped DEF Files, Entries
      <4> QED BY <1>0, <2>2, <3>1, <3>4, <4>1 DEF Writer, Treating
    <3> QED BY <3>3, <3>4
  <2> QED BY <1>10, <2>1, <2>2 DEF OpenLogger
<1>11. CASE CreateFile
  <2> DEFINE g == entry[pLog].logger
  <2>1. CASE Deleted(Dropped)
    BY <1>0, <1>11, <2>1, DeletedWriter DEF CreateFile, Treating
  <2>2. CASE _handle' = [_handle EXCEPT ![g] = _path[g]] /\ wpc' = "write" /\ UNCHANGED <<pLog, outcome>>
    <3>1. g \in Loggers /\ entry[pLog] # None /\ entry' = entry /\ entry[pLog].since \in Nat
          /\ pLog \in AllLogs /\ pLog # None
      BY <1>0, <1>11, InHand, Markers DEF CreateFile, Treating
    <3>2. _handle'[g] = Settled[g] /\ Settled[g] \in Nat /\ Settled[g] >= entry[pLog].since
      BY <1>0, <1>11, <2>2, <3>1, SettledUnlocked, SettledTyped DEF Files, Entries, CreateFile
    <3> QED BY <1>0, <2>2, <3>1, <3>2 DEF Writer, Treating
  <2> QED BY <1>11, <2>1, <2>2 DEF CreateFile
<1>12. CASE WriteLog
  BY <1>0, <1>12, DeletedWriter DEF WriteLog, Treating
<1>13. CASE Flush
  BY <1>0, <1>13 DEF Flush, WGoes, Goes, Writer, Treating
<1>14. CASE Quit
  BY <1>0, <1>14 DEF Quit, WGoes, Goes, Writer, Treating
<1>15. CASE NextRound
  BY <1>0, <1>15 DEF NextRound, WGoes, Goes, Writer, Treating
<1>16. CASE CloseAll
  BY <1>0, <1>16 DEF CloseAll, WGoes, Goes, Writer, Treating
<1>17. ASSUME NEW t \in Threads, NEW l \in Logs, NEW g \in Loggers, NEW level \in Levels,
             PushBegins(t, l, g, level)
       PROVE Writer'
  <2>1. /\ entry' = [entry EXCEPT ![l] = [logger |-> g, level |-> level, since |-> Settled[g]]]
        /\ entry[l] = None /\ UNCHANGED <<wpc, pLog, _handle>> /\ l # Hello /\ Hello \in AllLogs
    BY <1>17, Markers DEF PushBegins
  <2>2. pLog # None => pLog # l /\ entry'[pLog] = entry[pLog]
    BY <1>0, <2>1 DEF Writer, Entries
  <2>3. entry'[Hello] = entry[Hello]
    BY <1>0, <2>1 DEF Entries
  <2> QED BY <1>0, <2>1, <2>2, <2>3 DEF Writer, Treating
<1>18. ASSUME NEW t \in Threads, PushReturns(t) PROVE Writer'
  BY <1>0, <1>18 DEF PushReturns, WGoes, Goes, Writer, Treating
<1>19. CASE SetAttribute \/ PathChanged
  BY <1>0, <1>19 DEF SetAttribute, PathChanged, WGoes, Goes, Writer, Treating
<1>20. CASE UNCHANGED vars
  BY <1>0, <1>20 DEF vars, Writer
<1> QED BY <1>1, <1>2, <1>3, <1>4, <1>5, <1>6, <1>7, <1>8, <1>9, <1>10, <1>11, <1>12, <1>13,
           <1>14, <1>15, <1>16, <1>17, <1>18, <1>19, <1>20, Zenon DEF Next, run, Application

LEMMA StartingStep == Inv /\ [Next]_vars => Starting'
<1> SUFFICES ASSUME Writer, Starting, [Next]_vars PROVE Starting'
  BY DEF Inv
<1> USE DEF Starting
<1>1. CASE Start
  BY <1>1 DEF Start, WGoes, Goes
<1>2. CASE StartReturns
  BY <1>2 DEF StartReturns, WGoes, Goes
<1>3. CASE StartTimesOut
  BY <1>3 DEF StartTimesOut, WGoes, Goes
<1>4. CASE StopBegins
  BY <1>4 DEF StopBegins, WGoes, Goes
<1>5. CASE StopReturns
  BY <1>5 DEF StopReturns, WGoes, Goes
<1>6. CASE Begin
  BY <1>6 DEF Begin, WGoes, Goes
<1>7. CASE SayHello
  BY <1>7 DEF SayHello, WGoes, Goes
<1>8. CASE PopLog
  BY <1>8 DEF PopLog, WGoes, Goes
<1>9. CASE CheckLog
  BY <1>9 DEF CheckLog, Deleted
<1>10. CASE OpenLogger
  BY <1>10 DEF OpenLogger, Deleted
<1>11. CASE CreateFile
  BY <1>11 DEF CreateFile, Deleted
<1>12. CASE WriteLog
  BY <1>12 DEF WriteLog, Deleted
<1>13. CASE Flush
  BY <1>13 DEF Flush, WGoes, Goes
<1>14. CASE Quit
  BY <1>14 DEF Quit, WGoes, Goes
<1>15. CASE NextRound
  BY <1>15 DEF NextRound, WGoes, Goes
<1>16. CASE CloseAll
  BY <1>16 DEF CloseAll, WGoes, Goes
<1>17. ASSUME NEW t \in Threads, NEW l \in Logs, NEW g \in Loggers, NEW level \in Levels,
             PushBegins(t, l, g, level)
       PROVE Starting'
  BY <1>17 DEF PushBegins
<1>18. ASSUME NEW t \in Threads, PushReturns(t) PROVE Starting'
  BY <1>18 DEF PushReturns
<1>19. CASE SetAttribute \/ PathChanged
  BY <1>19 DEF SetAttribute, PathChanged
<1>20. CASE UNCHANGED vars
  BY <1>20 DEF vars
<1> QED BY <1>1, <1>2, <1>3, <1>4, <1>5, <1>6, <1>7, <1>8, <1>9, <1>10, <1>11, <1>12, <1>13,
           <1>14, <1>15, <1>16, <1>17, <1>18, <1>19, <1>20, Zenon DEF Next, run, Application

LEMMA OldStep == Inv /\ [Next]_vars => NotToOldFile'
<1> SUFFICES ASSUME Inv, [Next]_vars PROVE NotToOldFile'
  OBVIOUS
<1>0. Attributes /\ Entries /\ Writer /\ NotToOldFile
  BY DEF Inv
<1>1. CASE Start
  BY <1>0, <1>1 DEF Start, NotToOldFile, histVars
<1>2. CASE StartReturns
  BY <1>0, <1>2 DEF StartReturns, NotToOldFile, histVars
<1>3. CASE StartTimesOut
  BY <1>0, <1>3 DEF StartTimesOut, NotToOldFile, histVars
<1>4. CASE StopBegins
  BY <1>0, <1>4 DEF StopBegins, NotToOldFile, histVars
<1>5. CASE StopReturns
  BY <1>0, <1>5 DEF StopReturns, NotToOldFile, histVars
<1>6. CASE Begin
  BY <1>0, <1>6 DEF Begin, NotToOldFile, histVars
<1>7. CASE SayHello
  <2>1. /\ entry' = [entry EXCEPT ![Hello] = [logger |-> Main, level |-> 1, since |-> Settled[Main]]]
        /\ entry[Hello] = None /\ outcome' = outcome /\ Hello \in AllLogs
    BY <1>0, <1>7, Markers DEF SayHello, WGoes, Writer
  <2>2. outcome[Hello] \notin Nat
    BY <1>0, <2>1, Markers DEF Entries
  <2> QED BY <1>0, <2>1, <2>2 DEF NotToOldFile, Entries
<1>8. CASE PopLog
  BY <1>0, <1>8 DEF PopLog, NotToOldFile, histVars
<1>9. CASE CheckLog
  <2>1. /\ wpc \in Treating /\ entry' = entry
        /\ outcome' = outcome \/ outcome' = [outcome EXCEPT ![pLog] = Dropped]
    BY <1>9 DEF CheckLog, Treating, Deleted
  <2> QED BY <1>0, <2>1, Markers DEF NotToOldFile, Entries
<1>10. CASE OpenLogger
  <2>1. /\ wpc \in Treating /\ entry' = entry
        /\ outcome' = outcome \/ outcome' = [outcome EXCEPT ![pLog] = Dropped]
    BY <1>10 DEF OpenLogger, Treating, Deleted
  <2> QED BY <1>0, <2>1, Markers DEF NotToOldFile, Entries
<1>11. CASE CreateFile
  <2>1. /\ wpc \in Treating /\ entry' = entry
        /\ outcome' = outcome \/ outcome' = [outcome EXCEPT ![pLog] = Dropped]
    BY <1>11 DEF CreateFile, Treating, Deleted
  <2> QED BY <1>0, <2>1, Markers DEF NotToOldFile, Entries
<1>12. CASE WriteLog
  <2>1. /\ outcome' = [outcome EXCEPT ![pLog] = _handle[entry[pLog].logger]] /\ entry' = entry
        /\ _handle[entry[pLog].logger] >= entry[pLog].since
    BY <1>0, <1>12 DEF WriteLog, Deleted, Writer
  <2> QED BY <1>0, <2>1 DEF NotToOldFile, Entries
<1>13. CASE Flush
  BY <1>0, <1>13 DEF Flush, NotToOldFile, histVars
<1>14. CASE Quit
  BY <1>0, <1>14 DEF Quit, NotToOldFile, histVars
<1>15. CASE NextRound
  BY <1>0, <1>15 DEF NextRound, NotToOldFile, histVars
<1>16. CASE CloseAll
  BY <1>0, <1>16 DEF CloseAll, NotToOldFile, histVars
<1>17. ASSUME NEW t \in Threads, NEW l \in Logs, NEW g \in Loggers, NEW level \in Levels,
             PushBegins(t, l, g, level)
       PROVE NotToOldFile'
  <2>1. /\ entry' = [entry EXCEPT ![l] = [logger |-> g, level |-> level, since |-> Settled[g]]]
        /\ entry[l] = None /\ outcome' = outcome /\ l \in AllLogs
    BY <1>17 DEF PushBegins, histVars, AllLogs
  <2>2. outcome[l] \notin Nat
    BY <1>0, <2>1, Markers DEF Entries
  <2> QED BY <1>0, <2>1, <2>2 DEF NotToOldFile, Entries
<1>18. ASSUME NEW t \in Threads, PushReturns(t) PROVE NotToOldFile'
  BY <1>0, <1>18 DEF PushReturns, NotToOldFile, histVars
<1>19. CASE SetAttribute \/ PathChanged
  BY <1>0, <1>19 DEF SetAttribute, PathChanged, NotToOldFile, histVars
<1>20. CASE UNCHANGED vars
  BY <1>0, <1>20 DEF vars, NotToOldFile, histVars
<1> QED BY <1>1, <1>2, <1>3, <1>4, <1>5, <1>6, <1>7, <1>8, <1>9, <1>10, <1>11, <1>12, <1>13,
           <1>14, <1>15, <1>16, <1>17, <1>18, <1>19, <1>20, Zenon DEF Next, run, Application

LEMMA JoinedStep == Inv /\ [Next]_vars => Joined'
<1> SUFFICES ASSUME Queue, InPush, Writer, Starting, Joined, [Next]_vars, JoinFirst PROVE Joined'
  BY DEF Inv, Joined
<1>0. /\ ~_runing => \A t \in Threads : tpc[t] # "push"
      /\ wpc \in {"close", "done"} => ~_runing /\ _logs = <<>>
  BY DEF Joined
<1>1. CASE Start
  BY <1>0, <1>1 DEF Start, Goes, Joined, threadVars
<1>2. CASE StartReturns
  BY <1>0, <1>2 DEF StartReturns, WGoes, Goes, Joined, threadVars
<1>3. CASE StartTimesOut
  BY <1>0, <1>3 DEF StartTimesOut, WGoes, Goes, Joined, threadVars
<1>4. CASE StopBegins
  BY <1>0, <1>4 DEF StopBegins, WGoes, Goes, Joined, threadVars
<1>5. CASE StopReturns
  BY <1>0, <1>5 DEF StopReturns, WGoes, Goes, Joined, threadVars
<1>6. CASE Begin
  BY <1>0, <1>6 DEF Begin, WGoes, Joined
<1>7. CASE SayHello
  BY <1>0, <1>7 DEF SayHello, WGoes, Goes, Joined, threadVars
<1>8. CASE PopLog
  BY <1>0, <1>8 DEF PopLog, WGoes, Goes, Joined, threadVars
<1>9. CASE CheckLog
  <2>1. /\ _runing' = _runing /\ _logs' = _logs /\ tpc' = tpc
        /\ wpc' \notin {"close", "done"}
    BY <1>9 DEF CheckLog, Deleted, threadVars
  <2> QED BY <1>0, <2>1 DEF Joined
<1>10. CASE OpenLogger
  <2>1. /\ _runing' = _runing /\ _logs' = _logs /\ tpc' = tpc
        /\ wpc' \notin {"close", "done"}
    BY <1>10 DEF OpenLogger, Deleted, threadVars
  <2> QED BY <1>0, <2>1 DEF Joined
<1>11. CASE CreateFile
  <2>1. /\ _runing' = _runing /\ _logs' = _logs /\ tpc' = tpc
        /\ wpc' \notin {"close", "done"}
    BY <1>11 DEF CreateFile, Deleted, threadVars
  <2> QED BY <1>0, <2>1 DEF Joined
<1>12. CASE WriteLog
  <2>1. /\ _runing' = _runing /\ _logs' = _logs /\ tpc' = tpc
        /\ wpc' \notin {"close", "done"}
    BY <1>12 DEF WriteLog, Deleted, threadVars
  <2> QED BY <1>0, <2>1 DEF Joined
<1>13. CASE Flush
  BY <1>0, <1>13 DEF Flush, WGoes, Goes, Joined, threadVars
<1>14. CASE Quit
  BY <1>0, <1>14 DEF Quit, WGoes, Goes, Joined, threadVars
<1>15. CASE NextRound
  BY <1>0, <1>15 DEF NextRound, WGoes, Goes, Joined, threadVars
<1>16. CASE CloseAll
  BY <1>0, <1>16 DEF CloseAll, WGoes, Goes, Joined, threadVars
<1>17. ASSUME NEW t \in Threads, NEW l \in Logs, NEW g \in Loggers, NEW level \in Levels,
             PushBegins(t, l, g, level)
       PROVE Joined'
  BY <1>0, <1>17 DEF PushBegins, Joined
<1>18. ASSUME NEW t \in Threads, PushReturns(t) PROVE Joined'
  <2>1. _runing /\ _runing' = _runing /\ wpc' = wpc
    BY <1>0, <1>18 DEF PushReturns
  <2> QED BY <1>0, <2>1 DEF Joined
<1>19. CASE SetAttribute \/ PathChanged
  BY <1>0, <1>19 DEF SetAttribute, PathChanged, WGoes, Goes, Joined, threadVars
<1>20. CASE UNCHANGED vars
  BY <1>0, <1>20 DEF vars, Joined, threadVars
<1> QED BY <1>1, <1>2, <1>3, <1>4, <1>5, <1>6, <1>7, <1>8, <1>9, <1>10, <1>11, <1>12, <1>13,
           <1>14, <1>15, <1>16, <1>17, <1>18, <1>19, <1>20, Zenon DEF Next, run, Application

\* Deleted gives the LogData in hand an outcome and keeps the others.
LEMMA DeletedKept ==
  ASSUME Entries, Writer, Kept, wpc \in Treating, NEW r, r # None, Deleted(r),
         UNCHANGED <<_logs, accepted>>
  PROVE  Kept'
<1>1. pLog \in AllLogs /\ outcome' = [outcome EXCEPT ![pLog] = r] /\ pLog # None
  BY InHand DEF Deleted
<1>2. ASSUME NEW l \in accepted
      PROVE  outcome'[l] # None \/ \E i \in 1 .. Len(_logs) : _logs[i] = l
  <2>1. outcome[l] # None \/ pLog = l \/ \E i \in 1 .. Len(_logs) : _logs[i] = l
    BY DEF Kept
  <2>2. l \in AllLogs
    BY DEF Entries
  <2> QED BY <1>1, <2>1, <2>2 DEF Entries
<1> QED BY <1>2 DEF Kept

\* Push puts what it accepts into the queue.
LEMMA PushKept ==
  ASSUME Queue, Kept, NEW l \in AllLogs, Push(l), UNCHANGED <<outcome, pLog>>
  PROVE  Kept'
<1>1. _logs' = Append(_logs, l) /\ accepted' = accepted \cup {l}
  BY DEF Push
<1>2. /\ Len(_logs') = Len(_logs) + 1 /\ _logs'[Len(_logs) + 1] = l /\ Len(_logs) \in Nat
      /\ \A i \in 1 .. Len(_logs) : _logs'[i] = _logs[i]
  BY <1>1, AppendProperties, LenProperties DEF Queue
<1>3. ASSUME NEW i \in 1 .. Len(_logs) PROVE i \in 1 .. Len(_logs') /\ _logs'[i] = _logs[i]
  BY <1>2
<1>4. Len(_logs) + 1 \in 1 .. Len(_logs')
  BY <1>2
<1>5. ASSUME NEW k \in accepted
      PROVE  outcome[k] # None \/ pLog = k \/ \E i \in 1 .. Len(_logs') : _logs'[i] = k
  BY <1>3 DEF Kept
<1> QED BY <1>1, <1>2, <1>4, <1>5 DEF Kept

LEMMA KeptStep == Inv /\ [Next]_vars => Kept'
<1> SUFFICES ASSUME Entries, Queue, InPush, Writer, Kept, [Next]_vars PROVE Kept'
  BY DEF Inv
<1>1. CASE Start
  BY <1>1 DEF Start, Kept, histVars
<1>2. CASE StartReturns
  BY <1>2 DEF StartReturns, Kept, histVars
<1>3. CASE StartTimesOut
  BY <1>3 DEF StartTimesOut, Kept, histVars
<1>4. CASE StopBegins
  BY <1>4 DEF StopBegins, Kept, histVars
<1>5. CASE StopReturns
  BY <1>5 DEF StopReturns, Kept, histVars
<1>6. CASE Begin
  BY <1>6 DEF Begin, Kept, histVars
<1>7. CASE SayHello
  <2>1. UNCHANGED <<outcome, pLog>> /\ (Push(Hello) \/ UNCHANGED <<_logs, accepted>>)
    BY <1>7 DEF SayHello
  <2>2. CASE Push(Hello)
    BY <2>1, <2>2, Markers, PushKept
  <2>3. CASE UNCHANGED <<_logs, accepted>>
    BY <2>1, <2>3 DEF Kept
  <2> QED BY <2>1, <2>2, <2>3
<1>8. CASE PopLog
  <2>1. /\ pLog' = Head(_logs) /\ _logs' = Tail(_logs) /\ _logs # <<>>
        /\ UNCHANGED <<outcome, accepted>> /\ pLog = None
    BY <1>8 DEF PopLog, WGoes, Writer, Treating, histVars
  <2>2. /\ Len(_logs) \in Nat /\ Len(_logs') = Len(_logs) - 1
        /\ \A i \in 1 .. Len(_logs') : _logs'[i] = _logs[i + 1]
    BY <2>1, HeadTailProperties, LenProperties DEF Queue
  <2>3. Head(_logs) = _logs[1]
    BY <2>1 DEF Queue
  <2>4. ASSUME NEW i \in 1 .. Len(_logs), i # 1 PROVE i - 1 \in 1 .. Len(_logs') /\ _logs'[i - 1] = _logs[i]
    <3>1. i - 1 \in 1 .. Len(_logs') /\ (i - 1) + 1 = i
      BY <2>2, <2>4
    <3> QED BY <2>2, <3>1
  <2>5. ASSUME NEW l \in accepted
        PROVE  outcome[l] # None \/ pLog' = l \/ \E i \in 1 .. Len(_logs') : _logs'[i] = l
    <3>1. CASE outcome[l] # None
      BY <3>1
    <3>2. ASSUME NEW i \in 1 .. Len(_logs), _logs[i] = l
          PROVE  pLog' = l \/ \E k \in 1 .. Len(_logs') : _logs'[k] = l
      BY <2>1, <2>3, <2>4, <3>2
    <3>3. pLog # l
      BY <2>1, Markers DEF Entries
    <3> QED BY <3>1, <3>2, <3>3 DEF Kept
  <2> QED BY <2>1, <2>5 DEF Kept
<1>9. CASE CheckLog
  <2>1. /\ wpc \in Treating /\ UNCHANGED <<_logs, accepted>>
        /\ Deleted(Dropped) \/ UNCHANGED <<pLog, outcome>>
    BY <1>9 DEF CheckLog, Treating
  <2>2. CASE Deleted(Dropped)
    BY <2>1, <2>2, Markers, DeletedKept
  <2>3. CASE UNCHANGED <<pLog, outcome>>
    BY <2>1, <2>3 DEF Kept
  <2> QED BY <2>1, <2>2, <2>3
<1>10. CASE OpenLogger
  <2>1. /\ wpc \in Treating /\ UNCHANGED <<_logs, accepted>>
        /\ Deleted(Dropped) \/ UNCHANGED <<pLog, outcome>>
    BY <1>10 DEF OpenLogger, Treating
  <2>2. CASE Deleted(Dropped)
    BY <2>1, <2>2, Markers, DeletedKept
  <2>3. CASE UNCHANGED <<pLog, outcome>>
    BY <2>1, <2>3 DEF Kept
  <2> QED BY <2>1, <2>2, <2>3
<1>11. CASE CreateFile
  <2>1. /\ wpc \in Treating /\ UNCHANGED <<_logs, accepted>>
        /\ Deleted(Dropped) \/ UNCHANGED <<pLog, outcome>>
    BY <1>11 DEF CreateFile, Treating
  <2>2. CASE Deleted(Dropped)
    BY <2>1, <2>2, Markers, DeletedKept
  <2>3. CASE UNCHANGED <<pLog, outcome>>
    BY <2>1, <2>3 DEF Kept
  <2> QED BY <2>1, <2>2, <2>3
<1>12. CASE WriteLog
  <2>1. /\ wpc \in Treating /\ UNCHANGED <<_logs, accepted>>
        /\ Deleted(_handle[entry[pLog].logger]) /\ _handle[entry[pLog].logger] # None
    BY <1>12, Markers DEF WriteLog, Treating, Writer
  <2> QED BY <2>1, DeletedKept
<1>13. CASE Flush
  BY <1>13 DEF Flush, Kept, histVars
<1>14. CASE Quit
  BY <1>14 DEF Quit, Kept, histVars
<1>15. CASE NextRound
  BY <1>15 DEF NextRound, Kept, histVars
<1>16. CASE CloseAll
  BY <1>16 DEF CloseAll, Kept, histVars
<1>17. ASSUME NEW t \in Threads, NEW l \in Logs, NEW g \in Loggers, NEW level \in Levels,
             PushBegins(t, l, g, level)
       PROVE Kept'
  BY <1>17 DEF PushBegins, Kept, histVars
<1>18. ASSUME NEW t \in Threads, PushReturns(t) PROVE Kept'
  <2>1. Push(arg[t]) /\ UNCHANGED <<outcome, pLog>> /\ arg[t] \in AllLogs
    BY <1>18 DEF PushReturns, InPush, AllLogs
  <2> QED BY <2>1, PushKept
<1>19. CASE SetAttribute \/ PathChanged
  BY <1>19 DEF SetAttribute, PathChanged, Kept, histVars
<1>20. CASE UNCHANGED vars
  BY <1>20 DEF vars, Kept, histVars
<1> QED BY <1>1, <1>2, <1>3, <1>4, <1>5, <1>6, <1>7, <1>8, <1>9, <1>10, <1>11, <1>12, <1>13,
           <1>14, <1>15, <1>16, <1>17, <1>18, <1>19, <1>20, Zenon DEF Next, run, Application

-----------------------------------------------------------------------------
(* Theorems                                                                *)

LEMMA InitInv == Init => Inv
<1> SUFFICES ASSUME Init PROVE Inv
  OBVIOUS
<1> USE DEF Init
<1>1. Attributes
  BY DEF Attributes, Levels
<1>2. Files
  BY DEF Files
<1>3. Entries
  BY DEF Entries
<1>4. Queue
  BY EmptySeq DEF Queue
<1>5. InPush
  BY DEF InPush
<1>6. Writer
  BY Markers DEF Writer, Treating
<1>7. Starting
  BY DEF Starting
<1>8. NotToOldFile
  BY Markers DEF NotToOldFile
<1>9. Joined
  BY DEF Joined
<1>10. Kept
  BY DEF Kept
<1> QED BY <1>1, <1>2, <1>3, <1>4, <1>5, <1>6, <1>7, <1>8, <1>9, <1>10 DEF Inv

\* The inductive invariant of the logger.
THEOREM Invariance == Spec => []Inv
<1>1. Inv /\ [Next]_vars => Inv'
  BY AttributesStep, FilesStep, EntriesStep, QueueStep, InPushStep, WriterStep, StartingStep,
     OldStep, JoinedStep, KeptStep DEF Inv
<1> QED BY <1>1, InitInv, PTL DEF Spec

\* Type correctness; the writer holds a LogData exactly while it treats it.
THEOREM TypeCorrect == Spec => []TypeOK
<1>1. Inv => TypeOK
  <2> SUFFICES ASSUME Inv PROVE TypeOK
    OBVIOUS
  <2>1. Attributes /\ Files /\ Entries /\ Queue /\ InPush /\ Writer /\ Starting
    BY DEF Inv
  <2>2. wpc = "write" => _handle[entry[pLog].logger] # None
    BY <2>1, Markers DEF Writer
  <2> QED BY <2>1, <2>2 DEF TypeOK, Attributes, Files, Entries, Queue, InPush, Writer, Starting, Treating
<1> QED BY <1>1, Invariance, PTL

\* start returns true only when the writer has set _runing, which stays set
\* until stop is called.
THEOREM StartedMeansRunningHolds == Spec => []StartedMeansRunning
<1>1. Inv => StartedMeansRunning
  BY DEF Inv, Starting, StartedMeansRunning
<1> QED BY <1>1, Invariance, PTL

\* Whatever changes between openLogger's test of _hotChange and its use, no
\* LogData goes to a path whose replacement had returned before its pushLog began.
THEOREM NotToOldFileHolds == Spec => []NotToOldFile
<1>1. Inv => NotToOldFile
  BY DEF Inv
<1> QED BY <1>1, Invariance, PTL

\* If main waits for calls of pushLog before stop, every accepted LogData has
\* been treated when stop returns.
THEOREM NoLogLostHolds == Spec => [](JoinFirst => NoLogLost)
<1>1. Inv => (JoinFirst => NoLogLost)
  <2>1. ASSUME Inv, JoinFirst, mpc = "stopped", NEW l \in accepted PROVE outcome[l] # None
    <3>1. wpc = "done" /\ _logs = <<>>
      BY <2>1 DEF Inv, Starting, Joined
    <3>2. pLog = None /\ l \in AllLogs /\ l # None
      BY <2>1, <3>1, Markers DEF Inv, Writer, Treating, Entries
    <3>3. Len(_logs) = 0
      BY <3>1
    <3> QED BY <2>1, <3>2, <3>3 DEF Inv, Kept
  <2> QED BY <2>1 DEF NoLogLost
<1> QED BY <1>1, Invariance, PTL

-----------------------------------------------------------------------------
(* A LogData is freed by the writer when it is through with it, and once.  *)

\* A LogData is at one position of the queue, in the writer's hands or in one
\* call of pushLog, and has not been treated while it is there.
OnePlace ==
  /\ \A i, j \in 1 .. Len(_logs) : _logs[i] = _logs[j] => i = j
  /\ \A i \in 1 .. Len(_logs) : _logs[i] # pLog /\ outcome[_logs[i]] = None
  /\ pLog # None => outcome[pLog] = None
  /\ \A t \in Threads : tpc[t] = "push" =>
       /\ outcome[arg[t]] = None /\ arg[t] # pLog
       /\ \A i \in 1 .. Len(_logs) : _logs[i] # arg[t]
  /\ \A t, u \in Threads : tpc[t] = "push" /\ tpc[u] = "push" /\ arg[t] = arg[u] => t = u

LEMMA OnePlaceFrame ==
  ASSUME OnePlace, UNCHANGED <<_logs, pLog, outcome, threadVars>>
  PROVE  OnePlace'
BY DEF OnePlace, threadVars

\* The LogData in the writer's hands is treated; the others are elsewhere.
LEMMA OnePlaceDeleted ==
  ASSUME Inv, OnePlace, wpc \in Treating, NEW r, Deleted(r), UNCHANGED <<_logs, threadVars>>
  PROVE  OnePlace' /\ \A l \in AllLogs : outcome[l] # None => outcome'[l] = outcome[l]
<1>1. /\ pLog \in AllLogs /\ pLog # None /\ outcome \in [AllLogs -> Nat \cup {None, Dropped}]
      /\ outcome' = [outcome EXCEPT ![pLog] = r] /\ pLog' = None
  BY InHand DEF Deleted, Inv, Entries
<1>2. \A l \in AllLogs : l # pLog => outcome'[l] = outcome[l]
  BY <1>1
<1>3. \A i \in 1 .. Len(_logs) : _logs[i] \in AllLogs /\ _logs[i] # None
  BY Markers DEF Inv, Queue
<1>4. \A t \in Threads : tpc[t] = "push" => arg[t] \in AllLogs /\ arg[t] # None
  BY Markers DEF Inv, InPush, AllLogs
<1>5. \A l \in AllLogs : outcome[l] # None => outcome'[l] = outcome[l]
  BY <1>1, <1>2 DEF OnePlace
<1> QED BY <1>1, <1>2, <1>3, <1>4, <1>5 DEF OnePlace, threadVars

LEMMA OnePlacePop ==
  ASSUME Inv, OnePlace, PopLog
  PROVE  OnePlace'
<1>1. /\ pLog' = Head(_logs) /\ _logs' = Tail(_logs) /\ _logs # <<>>
      /\ UNCHANGED <<outcome, tpc, arg>>
  BY DEF PopLog, WGoes, threadVars, histVars
<1>2. /\ Len(_logs) \in Nat \ {0} /\ Len(_logs') = Len(_logs) - 1
      /\ \A i \in 1 .. Len(_logs') : _logs'[i] = _logs[i + 1]
  BY <1>1, HeadTailProperties, LenProperties, EmptySeq DEF Inv, Queue
<1>3. Head(_logs) = _logs[1] /\ 1 \in 1 .. Len(_logs)
  BY <1>1, <1>2 DEF Inv, Queue
<1>4. \A i \in 1 .. Len(_logs') : i + 1 \in 1 .. Len(_logs) /\ i + 1 # 1
  BY <1>2
<1>5. ASSUME NEW i \in 1 .. Len(_logs'), NEW j \in 1 .. Len(_logs'), _logs'[i] = _logs'[j]
      PROVE  i = j
  <2>1. i + 1 = j + 1
    BY <1>2, <1>4, <1>5 DEF OnePlace
  <2> QED BY <2>1
<1>6. \A i \in 1 .. Len(_logs') : _logs'[i] # pLog' /\ outcome[_logs'[i]] = None
  BY <1>1, <1>2, <1>3, <1>4 DEF OnePlace
<1>7. outcome[pLog'] = None
  BY <1>1, <1>3 DEF OnePlace
<1>8. \A t \in Threads : tpc[t] = "push" =>
        arg[t] # pLog' /\ \A i \in 1 .. Len(_logs') : _logs'[i] # arg[t]
  BY <1>1, <1>2, <1>3, <1>4 DEF OnePlace
<1> QED BY <1>1, <1>5, <1>6, <1>7, <1>8 DEF OnePlace

\* A LogData that is nowhere else is put into the queue.
LEMMA OnePlacePush ==
  ASSUME Inv, OnePlace, NEW l \in AllLogs, Push(l), UNCHANGED <<pLog, outcome>>,
         outcome[l] = None, l # pLog, \A i \in 1 .. Len(_logs) : _logs[i] # l,
         \A t \in Threads : tpc'[t] = "push" => tpc[t] = "push" /\ arg'[t] = arg[t] /\ arg[t] # l
  PROVE  OnePlace'
<1>1. /\ Len(_logs) \in Nat /\ Len(_logs') = Len(_logs) + 1 /\ _logs'[Len(_logs) + 1] = l
      /\ \A i \in 1 .. Len(_logs) : _logs'[i] = _logs[i]
  BY AppendProperties, LenProperties DEF Push, Inv, Queue
<1>2. ASSUME NEW i \in 1 .. Len(_logs')
      PROVE  \/ i \in 1 .. Len(_logs) /\ _logs'[i] = _logs[i]
             \/ i = Len(_logs) + 1 /\ _logs'[i] = l
  BY <1>1
<1>3. ASSUME NEW i \in 1 .. Len(_logs'), NEW j \in 1 .. Len(_logs'), _logs'[i] = _logs'[j]
      PROVE  i = j
  BY <1>2, <1>3 DEF OnePlace
<1>4. \A i \in 1 .. Len(_logs') : _logs'[i] # pLog' /\ outcome'[_logs'[i]] = None
  BY <1>2 DEF OnePlace
<1>5. \A t \in Threads : tpc'[t] = "push" =>
        /\ outcome'[arg'[t]] = None /\ arg'[t] # pLog'
        /\ \A i \in 1 .. Len(_logs') : _logs'[i] # arg'[t]
  BY <1>2 DEF OnePlace
<1>6. pLog' # None => outcome'[pLog'] = None
  BY DEF OnePlace
<1>7. \A t, u \in Threads : tpc'[t] = "push" /\ tpc'[u] = "push" /\ arg'[t] = arg'[u] => t = u
  BY DEF OnePlace
<1> QED BY <1>3, <1>4, <1>5, <1>6, <1>7 DEF OnePlace

\* A LogData nobody made yet is in no queue, no hand and no call.
LEMMA NewLog ==
  ASSUME Inv, NEW l \in AllLogs, entry[l] = None
  PROVE  /\ outcome[l] = None /\ l # pLog /\ \A i \in 1 .. Len(_logs) : _logs[i] # l
         /\ \A t \in Threads : tpc[t] = "push" => arg[t] # l
<1>1. l # None
  BY Markers
<1> QED BY <1>1 DEF Inv, Entries, Queue, Writer, InPush

LEMMA OnePlaceApplication ==
  ASSUME Inv, OnePlace, Application PROVE OnePlace' /\ outcome' = outcome
<1>1. ASSUME NEW t \in Threads, NEW l \in Logs, NEW g \in Loggers, NEW level \in Levels,
             PushBegins(t, l, g, level)
      PROVE OnePlace' /\ outcome' = outcome
  <2>1. /\ UNCHANGED <<_logs, pLog, outcome>> /\ entry[l] = None /\ tpc[t] = "idle"
        /\ tpc' = [tpc EXCEPT ![t] = "push"] /\ arg' = [arg EXCEPT ![t] = l]
    BY <1>1 DEF PushBegins, histVars
  <2>2. /\ tpc'[t] = "push" /\ arg'[t] = l
        /\ \A u \in Threads : u # t => tpc'[u] = tpc[u] /\ arg'[u] = arg[u]
    BY <2>1 DEF Inv, InPush
  <2>3. l \in AllLogs
    BY DEF AllLogs
  <2>4. /\ outcome[l] = None /\ l # pLog /\ \A i \in 1 .. Len(_logs) : _logs[i] # l
        /\ \A u \in Threads : tpc[u] = "push" => arg[u] # l
    BY <2>1, <2>3, NewLog
  <2> QED BY <2>1, <2>2, <2>4 DEF OnePlace
<1>2. ASSUME NEW t \in Threads, PushReturns(t) PROVE OnePlace' /\ outcome' = outcome
  <2>1. /\ Push(arg[t]) /\ UNCHANGED <<pLog, outcome>> /\ tpc[t] = "push"
        /\ tpc' = [tpc EXCEPT ![t] = "idle"] /\ arg' = [arg EXCEPT ![t] = None]
    BY <1>2 DEF PushReturns
  <2>2. /\ tpc'[t] = "idle"
        /\ \A u \in Threads : u # t => tpc'[u] = tpc[u] /\ arg'[u] = arg[u]
    BY <2>1 DEF Inv, InPush
  <2>3. arg[t] \in AllLogs
    BY <2>1 DEF Inv, InPush, AllLogs
  <2>4. /\ outcome[arg[t]] = None /\ arg[t] # pLog
        /\ \A i \in 1 .. Len(_logs) : _logs[i] # arg[t]
    BY <2>1 DEF OnePlace
  <2>5. \A u \in Threads : tpc'[u] = "push" =>
          tpc[u] = "push" /\ arg'[u] = arg[u] /\ arg[u] # arg[t]
    BY <2>1, <2>2 DEF OnePlace
  <2> QED BY <2>1, <2>3, <2>4, <2>5, OnePlacePush
<1> QED BY <1>1, <1>2 DEF Application

LEMMA OnePlaceWriter ==
  ASSUME Inv, OnePlace, run
  PROVE  OnePlace' /\ \A l \in AllLogs : outcome[l] # None => outcome'[l] = outcome[l]
<1>f. ASSUME UNCHANGED <<_logs, pLog, outcome, threadVars>>
      PROVE  OnePlace' /\ \A l \in AllLogs : outcome[l] # None => outcome'[l] = outcome[l]
  BY <1>f, OnePlaceFrame
<1>1. CASE Begin \/ Flush \/ Quit \/ NextRound \/ CloseAll
  BY <1>1, <1>f DEF Begin, Flush, Quit, NextRound, CloseAll, histVars
<1>2. CASE SayHello
  <2>1. /\ entry[Hello] = None /\ UNCHANGED <<outcome, pLog, threadVars>>
        /\ Push(Hello) \/ UNCHANGED <<_logs, accepted>>
    BY <1>2 DEF SayHello, WGoes, Inv, Writer
  <2>2. CASE Push(Hello)
    BY <2>1, <2>2, NewLog, OnePlacePush, Markers DEF threadVars
  <2> QED BY <2>1, <2>2, <1>f
<1>3. CASE PopLog
  <2>1. outcome' = outcome
    BY <1>3 DEF PopLog, histVars
  <2> QED BY <1>3, <2>1, OnePlacePop
<1>4. CASE CheckLog \/ OpenLogger \/ CreateFile \/ WriteLog
  <2>1. wpc \in Treating /\ UNCHANGED <<_logs, threadVars>>
    BY <1>4 DEF CheckLog, OpenLogger, CreateFile, WriteLog, Treating
  <2>2. CASE \E r : Deleted(r)
    BY <2>1, <2>2, OnePlaceDeleted
  <2>3. CASE UNCHANGED <<pLog, outcome>>
    BY <2>1, <2>3, <1>f
  <2>4. (\E r : Deleted(r)) \/ UNCHANGED <<pLog, outcome>>
    BY <1>4 DEF CheckLog, OpenLogger, CreateFile, WriteLog
  <2> QED BY <2>2, <2>3, <2>4
<1> QED BY <1>1, <1>2, <1>3, <1>4 DEF run

LEMMA OnePlaceStep ==
  ASSUME Inv, OnePlace, [Next]_vars
  PROVE  OnePlace' /\ \A l \in AllLogs : outcome[l] # None => outcome'[l] = outcome[l]
<1>f. ASSUME UNCHANGED <<_logs, pLog, outcome, threadVars>>
      PROVE  OnePlace' /\ \A l \in AllLogs : outcome[l] # None => outcome'[l] = outcome[l]
  BY <1>f, OnePlaceFrame
<1>1. CASE Start \/ StartReturns \/ StartTimesOut \/ StopBegins \/ StopReturns
  BY <1>1, <1>f DEF Start, StartReturns, StartTimesOut, StopBegins, StopReturns, histVars
<1>2. CASE SetAttribute \/ PathChanged \/ UNCHANGED vars
  BY <1>2, <1>f DEF SetAttribute, PathChanged, vars, histVars
<1> QED BY <1>1, <1>2, OnePlaceWriter, OnePlaceApplication DEF Next

\* log4z.cpp: the writer treats, and frees, every LogData at most once, whoever
\* pushes, stops and changes attributes meanwhile.
THEOREM TreatedOnce ==
  Spec => [][\A l \in AllLogs : outcome[l] # None => outcome'[l] = outcome[l]]_vars
<1>1. Init => OnePlace
  BY DEF Init, OnePlace
<1>2. Inv /\ OnePlace /\ [Next]_vars
        => OnePlace' /\ [\A l \in AllLogs : outcome[l] # None => outcome'[l] = outcome[l]]_vars
  BY OnePlaceStep
<1> QED BY <1>1, <1>2, Invariance, PTL DEF Spec

=============================================================================
