------------------------------- MODULE Log4z -------------------------------
(***************************************************************************)
(* log4z.cpp: LogerManager.  Application threads put LogData into _logs, a *)
(* writer thread takes them out and writes them to the file of their       *)
(* logger, main starts and stops the writer, and anyone changes the        *)
(* attributes of a logger at any time; the writer does so itself when it   *)
(* updates the configuration.  Asynchronous output, the build's default.   *)
(***************************************************************************)
EXTENDS Naturals, Sequences

CONSTANTS
  Threads,      \* application threads
  Loggers,      \* logger ids
  Main,         \* LOG4Z_MAIN_LOGGER_ID
  Logs,         \* the LogData of the application
  Hello,        \* the LogData with which the writer announces itself
  None,
  Dropped,      \* outcome of a LogData that is not written to a file
  MaxChanges,   \* bound: changes of a logger's path
  JoinFirst     \* does main wait for calls of pushLog before it calls stop?

Levels == {0, 1}
AllLogs == Logs \cup {Hello}
Entry == [logger : Loggers, level : Levels, since : Nat]

ASSUME Log4zAssumption ==
  /\ Main \in Loggers /\ Hello \notin Logs /\ None # Dropped
  /\ {None, Dropped} \cap (AllLogs \cup Nat) = {} /\ None \notin Entry \cup Loggers
  /\ MaxChanges \in Nat /\ JoinFirst \in BOOLEAN

VARIABLES
  _runing,
  _logs,        \* the queue
  _enable, _level, _outfile, _hotChange,   \* per logger
  _path,        \* per logger: how often its path or name was changed
  _hotLock,     \* the logger whose path is being changed under it, or None
  _handle,      \* per logger: the _path of the open file, or None
  posted,       \* _semaphore
  mpc,          \* main: where start and stop are
  wpc, pLog,    \* writer: where run is, and its LogData
  tpc,          \* per thread: where its call is
  arg,          \* per thread: the LogData it pushes
  entry,        \* per LogData: its logger and level, and the path that was set when
                \* pushLog began
  accepted,     \* history: LogData for which pushLog returned true
  outcome       \* history: per LogData, the path it was written to, or Dropped

attrVars == <<_enable, _level, _outfile, _hotChange, _path, _hotLock>>
histVars == <<accepted, outcome>>
threadVars == <<tpc, arg>>
vars == <<_runing, _logs, attrVars, _handle, posted, mpc, wpc, pLog,
          threadVars, entry, histVars>>

\* The path of a logger by the last change that has returned.
Settled == [g \in Loggers |-> IF _hotLock = g THEN _path[g] - 1 ELSE _path[g]]

Takes(l) == _enable[entry[l].logger] /\ entry[l].level >= _level[entry[l].logger]

-----------------------------------------------------------------------------
(* start and stop                                                          *)

Goes(from, to) == mpc = from /\ mpc' = to

Start ==
  /\ Goes("new", "starting")
  /\ wpc' = "begin"
  /\ UNCHANGED <<_runing, _logs, attrVars, _handle, posted, pLog,
                 threadVars, entry, histVars>>

StartReturns ==
  /\ Goes("starting", "started")
  /\ posted
  /\ posted' = FALSE
  /\ UNCHANGED <<_runing, _logs, attrVars, _handle, wpc, pLog,
                 threadVars, entry, histVars>>

\* Three seconds passed; the writer may still come up.
StartTimesOut ==
  /\ Goes("starting", "failed")
  /\ UNCHANGED <<_runing, _logs, attrVars, _handle, posted, wpc, pLog,
                 threadVars, entry, histVars>>

StopBegins ==
  /\ \/ Goes("started", "stopping")
     \/ Goes("failed", "stopping")
  /\ _runing
  /\ JoinFirst => \A t \in Threads : tpc[t] # "push"
  /\ _runing' = FALSE
  /\ UNCHANGED <<_logs, attrVars, _handle, posted, wpc, pLog,
                 threadVars, entry, histVars>>

\* pthread_join.
StopReturns ==
  /\ Goes("stopping", "stopped")
  /\ wpc = "done"
  /\ UNCHANGED <<_runing, _logs, attrVars, _handle, posted, wpc, pLog,
                 threadVars, entry, histVars>>

-----------------------------------------------------------------------------
(* pushLog, in two steps: the checks, and the push under _logLock          *)

PushBegins(t, l, g, level) ==
  /\ tpc[t] = "idle" /\ entry[l] = None
  /\ entry' = [entry EXCEPT ![l] = [logger |-> g, level |-> level, since |-> Settled[g]]]
  /\ _runing /\ _enable[g] /\ level >= _level[g]
  /\ tpc' = [tpc EXCEPT ![t] = "push"]
  /\ arg' = [arg EXCEPT ![t] = l]
  /\ UNCHANGED <<_runing, _logs, attrVars, _handle, posted, mpc, wpc,
                 pLog, histVars>>

Push(l) ==
  /\ _logs' = Append(_logs, l)
  /\ accepted' = accepted \cup {l}

PushReturns(t) ==
  /\ tpc[t] = "push"
  /\ Push(arg[t])
  /\ tpc' = [tpc EXCEPT ![t] = "idle"]
  /\ arg' = [arg EXCEPT ![t] = None]
  /\ UNCHANGED <<_runing, attrVars, _handle, posted, mpc, wpc, pLog,
                 entry, outcome>>

-----------------------------------------------------------------------------
(* The attributes; also what updateConfig does.                            *)

enableLogger(g, enable) ==
  /\ _enable' = [_enable EXCEPT ![g] = enable]
  /\ _hotChange' = [_hotChange EXCEPT ![g] = @ \/ enable]
  /\ UNCHANGED <<_level, _outfile, _path, _hotLock>>

setLoggerLevel(g, level) ==
  /\ _level[g] # level
  /\ _level' = [_level EXCEPT ![g] = level]
  /\ UNCHANGED <<_enable, _outfile, _hotChange, _path, _hotLock>>

setLoggerOutFile(g, enable) ==
  /\ _outfile[g] # enable
  /\ _outfile' = [_outfile EXCEPT ![g] = enable]
  /\ UNCHANGED <<_enable, _level, _hotChange, _path, _hotLock>>

\* A path or a name that differs from the old one, assigned under _hotLock.
setLoggerPath(g) ==
  /\ _hotLock = None /\ _path[g] < MaxChanges
  /\ _hotLock' = g
  /\ _path' = [_path EXCEPT ![g] = @ + 1]
  /\ UNCHANGED <<_enable, _level, _outfile, _hotChange>>

\* Once the writer has left the attributes change nothing.
SetAttribute ==
  /\ wpc # "done"
  /\ \E g \in Loggers :
       \/ \E b \in BOOLEAN : enableLogger(g, b) \/ setLoggerOutFile(g, b)
       \/ \E level \in Levels : setLoggerLevel(g, level)
       \/ setLoggerPath(g)
  /\ UNCHANGED <<_runing, _logs, _handle, posted, mpc, wpc, pLog,
                 threadVars, entry, histVars>>

\* Mutant of PathChanged: the writer is not told.
PathChanged_Silent ==
  /\ _hotLock # None
  /\ _hotLock' = None
  /\ UNCHANGED <<_runing, _logs, _enable, _level, _outfile, _path, _hotChange, _handle,
                 posted, mpc, wpc, pLog, threadVars, entry, histVars>>

\* The next statement: _hotChange, and the end of the lock's scope.  The writer
\* may have tested _hotChange, without the lock, in between.
PathChanged ==
  /\ _hotLock # None
  /\ _hotChange' = [_hotChange EXCEPT ![_hotLock] = TRUE]
  /\ _hotLock' = None
  /\ UNCHANGED <<_runing, _logs, _enable, _level, _outfile, _path, _handle,
                 posted, mpc, wpc, pLog, threadVars, entry, histVars>>

-----------------------------------------------------------------------------
(* run, the writer                                                         *)

WGoes(from, to) == wpc = from /\ wpc' = to

\* Mutant of Begin: start is told before _runing is set.
Begin_PostFirst ==
  /\ WGoes("begin", "hello")
  /\ posted' = TRUE
  /\ UNCHANGED <<_runing, _logs, attrVars, _handle, mpc, pLog,
                 threadVars, entry, histVars>>

Begin ==
  /\ WGoes("begin", "hello")
  /\ _runing' = TRUE
  /\ UNCHANGED <<_logs, attrVars, _handle, posted, mpc, pLog,
                 threadVars, entry, histVars>>

\* pushLog of the lines about the start; then the semaphore is posted.
SayHello ==
  /\ WGoes("hello", "pop")
  /\ entry' = [entry EXCEPT ![Hello] = [logger |-> Main, level |-> 1, since |-> Settled[Main]]]
  /\ IF _runing /\ _enable[Main] THEN Push(Hello)
                                 ELSE UNCHANGED <<_logs, accepted>>
  /\ posted' = TRUE
  /\ UNCHANGED <<_runing, attrVars, _handle, mpc, pLog, threadVars, outcome>>

PopLog ==
  /\ WGoes("pop", "popped")
  /\ _logs # <<>>
  /\ pLog' = Head(_logs)
  /\ _logs' = Tail(_logs)
  /\ UNCHANGED <<_runing, attrVars, _handle, posted, mpc, threadVars,
                 entry, histVars>>

\* The writer is through with its LogData.
Deleted(result) ==
  /\ outcome' = [outcome EXCEPT ![pLog] = result]
  /\ pLog' = None
  /\ wpc' = "pop"

\* Discard it, or print it only, or go on to the file.
CheckLog ==
  /\ wpc = "popped"
  /\ IF ~Takes(pLog) THEN Deleted(Dropped)
     ELSE IF _outfile[entry[pLog].logger]
          THEN wpc' = "open" /\ UNCHANGED <<pLog, outcome>>
          ELSE Deleted(Dropped)
  /\ UNCHANGED <<_runing, _logs, attrVars, _handle, posted, mpc,
                 threadVars, entry, accepted>>

\* openLogger: the file is closed for another day, a full file, a new path.
OpenLogger ==
  /\ wpc = "open"
  /\ LET g == entry[pLog].logger
     IN  IF ~Takes(pLog) \/ ~_outfile[g] THEN Deleted(Dropped) /\ UNCHANGED _handle
         ELSE /\ \E roll \in BOOLEAN :
                   _handle' = [_handle EXCEPT ![g] = IF roll \/ _hotChange[g] THEN None ELSE @]
              /\ wpc' = IF _handle'[g] = None THEN "create" ELSE "write"
              /\ UNCHANGED <<pLog, outcome>>
  /\ UNCHANGED <<_runing, _logs, attrVars, posted, mpc, threadVars,
                 entry, accepted>>

\* Mutant of CreateFile: a file that cannot be opened is tried again.
CreateFile_Retry ==
  /\ wpc = "create" /\ _hotLock = None
  /\ LET g == entry[pLog].logger
     IN  /\ _hotChange' = [_hotChange EXCEPT ![g] = FALSE]
         /\ \/ /\ _handle' = [_handle EXCEPT ![g] = _path[g]]
               /\ wpc' = "write"
            \/ wpc' = "open" /\ UNCHANGED _handle
  /\ UNCHANGED <<_runing, _logs, _enable, _level, _outfile, _path, _hotLock, posted,
                 mpc, pLog, threadVars, entry, histVars>>

\* Name and path are read, and _hotChange cleared, under _hotLock.  A file that
\* cannot be opened turns output off.
CreateFile ==
  /\ wpc = "create" /\ _hotLock = None
  /\ LET g == entry[pLog].logger
     IN  /\ _hotChange' = [_hotChange EXCEPT ![g] = FALSE]
         /\ \/ /\ _handle' = [_handle EXCEPT ![g] = _path[g]]
               /\ wpc' = "write"
               /\ UNCHANGED <<_outfile, pLog, outcome>>
            \/ /\ _outfile' = [_outfile EXCEPT ![g] = FALSE]
               /\ Deleted(Dropped)
               /\ UNCHANGED _handle
  /\ UNCHANGED <<_runing, _logs, _enable, _level, _path, _hotLock, posted,
                 mpc, threadVars, entry, accepted>>

WriteLog ==
  /\ wpc = "write"
  /\ Deleted(_handle[entry[pLog].logger])
  /\ UNCHANGED <<_runing, _logs, attrVars, _handle, posted, mpc,
                 threadVars, entry, accepted>>

\* The queue is empty: what was written is flushed (left out), a file of a
\* disabled logger is closed.
Flush ==
  /\ WGoes("pop", "sleep")
  /\ _logs = <<>>
  /\ _handle' = [g \in Loggers |-> IF _enable[g] THEN _handle[g] ELSE None]
  /\ UNCHANGED <<_runing, _logs, attrVars, posted, mpc, pLog,
                 threadVars, entry, histVars>>

\* Mutant of Quit: the writer leaves although the queue filled again.
Quit_NotDrained ==
  /\ WGoes("sleep", "close")
  /\ ~_runing
  /\ UNCHANGED <<_runing, _logs, attrVars, _handle, posted, mpc, pLog,
                 threadVars, entry, histVars>>

Quit ==
  /\ WGoes("sleep", "close")
  /\ ~_runing /\ _logs = <<>>
  /\ UNCHANGED <<_runing, _logs, attrVars, _handle, posted, mpc, pLog,
                 threadVars, entry, histVars>>

NextRound ==
  /\ WGoes("sleep", "pop")
  /\ _runing \/ _logs # <<>>
  /\ UNCHANGED <<_runing, _logs, attrVars, _handle, posted, mpc, pLog,
                 threadVars, entry, histVars>>

CloseAll ==
  /\ WGoes("close", "done")
  /\ _handle' = [g \in Loggers |-> IF _enable[g] THEN None ELSE _handle[g]]
  /\ _enable' = [g \in Loggers |-> FALSE]
  /\ UNCHANGED <<_runing, _logs, _level, _outfile, _hotChange, _path, _hotLock,
                 posted, mpc, pLog, threadVars, entry, histVars>>

-----------------------------------------------------------------------------
Init ==
  /\ _runing = FALSE /\ _logs = <<>>
  /\ _enable = [g \in Loggers |-> TRUE] /\ _level = [g \in Loggers |-> 0]
  /\ _outfile = [g \in Loggers |-> TRUE] /\ _hotChange = [g \in Loggers |-> FALSE]
  /\ _path = [g \in Loggers |-> 0] /\ _hotLock = None
  /\ _handle = [g \in Loggers |-> None]
  /\ posted = FALSE
  /\ mpc = "new" /\ wpc = "none" /\ pLog = None
  /\ tpc = [t \in Threads |-> "idle"] /\ arg = [t \in Threads |-> None]
  /\ entry = [l \in AllLogs |-> None]
  /\ accepted = {} /\ outcome = [l \in AllLogs |-> None]

run ==
  \/ Begin \/ SayHello \/ PopLog \/ CheckLog \/ OpenLogger \/ CreateFile
  \/ WriteLog \/ Flush \/ Quit \/ NextRound \/ CloseAll

Application ==
  \E t \in Threads :
    \/ \E l \in Logs, g \in Loggers, level \in Levels : PushBegins(t, l, g, level)
    \/ PushReturns(t)

Next ==
  \/ Start \/ StartReturns \/ StartTimesOut \/ StopBegins \/ StopReturns
  \/ run \/ Application \/ SetAttribute \/ PathChanged

Spec == Init /\ [][Next]_vars

\* The writer runs; calls of pushLog and setLoggerPath return and so does pthread_join.
\* Nobody has to log, to stop or to change anything.
FairSpec ==
  /\ Spec /\ WF_vars(run) /\ WF_vars(StopReturns) /\ WF_vars(PathChanged)
  /\ \A t \in Threads : WF_vars(PushReturns(t))

-----------------------------------------------------------------------------
(* Properties                                                              *)

\* Types of all variables; the writer holds a LogData exactly while it treats it.
TypeOK ==
  /\ _runing \in BOOLEAN /\ posted \in BOOLEAN
  /\ _logs \in Seq(AllLogs)
  /\ _enable \in [Loggers -> BOOLEAN] /\ _level \in [Loggers -> Levels]
  /\ _outfile \in [Loggers -> BOOLEAN] /\ _hotChange \in [Loggers -> BOOLEAN]
  /\ _path \in [Loggers -> Nat] /\ _hotLock \in Loggers \cup {None}
  /\ _handle \in [Loggers -> Nat \cup {None}]
  /\ mpc \in {"new", "starting", "started", "failed", "stopping", "stopped"}
  /\ wpc \in {"none", "begin", "hello", "pop", "popped", "open", "create", "write",
              "sleep", "close", "done"}
  /\ pLog \in AllLogs \cup {None}
  /\ pLog # None <=> wpc \in {"popped", "open", "create", "write"}
  /\ wpc = "write" => _handle[entry[pLog].logger] # None
  /\ tpc \in [Threads -> {"idle", "push"}]
  /\ arg \in [Threads -> Logs \cup {None}]
  /\ entry \in [AllLogs -> Entry \cup {None}]
  /\ accepted \subseteq AllLogs
  /\ outcome \in [AllLogs -> Nat \cup {None, Dropped}]

\* log4z.h:82: when start returns true the writer runs, and pushLog refuses
\* nothing for want of it until stop is called.
StartedMeansRunning == mpc = "started" => _runing

\* log4z.h:96: nothing for which pushLog returned true is missing when stop has
\* returned: it was written, filtered by a logger's attributes, or its file
\* could not be opened.
NoLogLost == mpc = "stopped" => \A l \in accepted : outcome[l] # None

\* A log goes to the path (and name) of the last change that had returned when
\* pushLog was called, or to a later one, although the writer looks at _hotChange
\* without the lock and path and flag are two statements.  (A log that comes
\* between the two statements may still go to the old file.)
NotToOldFile ==
  \A l \in AllLogs : outcome[l] \in Nat => outcome[l] >= entry[l].since

\* Every accepted log is treated in the end.
AcceptedTreated == \A l \in Logs : (l \in accepted) ~> (outcome[l] # None)

\* stop returns.
StopEnds == (mpc = "stopping") ~> (mpc = "stopped")

=============================================================================
