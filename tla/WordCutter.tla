----------------------------- MODULE WordCutter -----------------------------
(***************************************************************************)
(* segment/seg_word_api.cpp and FileMonitor.cpp: the dictionaries of       *)
(* sensitive words.  WordCutter keeps two copies of a segmentation and of  *)
(* a dictionary; update fills the spare ones and swaps the pointers, while *)
(* has*Word calls of other threads read through the pointers.  fileMonitor *)
(* calls update when a file is moved into the watched directory.           *)
(*                                                                         *)
(* One kind of words, those of a group: the others have pointers of their  *)
(* own and the same code, but that fileMonitor reloads no live words.      *)
(* update swaps under _rwlock, but no reader takes it: the lock orders     *)
(* nothing and is left out.  A dictionary is the version of the file it    *)
(* was read from; one message is asked about.                              *)
(***************************************************************************)
EXTENDS Naturals, Sequences

CONSTANTS
  Readers,     \* threads that call hasUserWord
  Versions,    \* bound: versions 0, 1, ... of the file
  Sensitive,   \* versions whose dictionary has a word of the message
  MaxGone,     \* bound: how often the watched directory is removed
  Torn         \* content of a copy that is empty or being filled

Copy == {1, 2}

ASSUME WordCutterAssumption ==
  /\ Versions \subseteq Nat /\ 0 \in Versions /\ Sensitive \subseteq Versions
  /\ MaxGone \in Nat
  /\ Torn \notin Versions

VARIABLES
  disk,        \* the version of the file
  dir,         \* "there" or "gone": the watched directory
  watch,       \* "on", or "off" when the watch went away with the directory
  gone,        \* how often the directory was removed
  events,      \* events queued in the inotify descriptor
  batch,       \* events fileMonitor has read and not handled
  pc,          \* where fileMonitor is
  seg, dict,   \* per copy: what the segmentation, the dictionary was filled with
  segUse, dictUse,  \* _segmentWordUse, _userWordDictMapUse
  rpc,         \* where each reader is
  rseg, words, \* per reader: the segmentation it uses; the version of its words
  rdict,       \* per reader: the dictionary searched
  answer,      \* per reader: what hasUserWord returned
  quiet,       \* history: readers during whose call no pointer was swapped
  missed       \* history: "no", "failed" after an update that failed, "unseen"
               \* when the file changed while there was no watch

fileVars == <<disk, dir, watch, gone, events>>
copyVars == <<seg, dict, segUse, dictUse>>
readerVars == <<rpc, rseg, words, rdict, answer, quiet>>
vars == <<fileVars, batch, pc, copyVars, readerVars, missed>>

Other(c) == 3 - c
segUpd  == Other(segUse)
dictUpd == Other(dictUse)

-----------------------------------------------------------------------------
(* The file and its directory                                              *)

\* A new version is moved to the name of the file: IN_MOVED_TO.  Its event makes
\* up for what was missed before.
Replace ==
  /\ dir = "there" /\ disk + 1 \in Versions
  /\ disk' = disk + 1
  /\ events' = IF watch = "on" THEN Append(events, "IN_MOVED_TO") ELSE events
  /\ missed' = IF watch = "on" THEN "no" ELSE "unseen"
  /\ UNCHANGED <<dir, watch, gone, batch, pc, copyVars, readerVars>>

\* The directory is removed: IN_DELETE_SELF, and the watch is gone.
Remove ==
  /\ dir = "there" /\ gone < MaxGone
  /\ dir' = "gone" /\ watch' = "off" /\ gone' = gone + 1
  /\ events' = IF watch = "on" THEN Append(events, "IN_DELETE_SELF") ELSE events
  /\ UNCHANGED <<disk, batch, pc, copyVars, readerVars, missed>>

Restore ==
  /\ dir = "gone"
  /\ dir' = "there"
  /\ UNCHANGED <<disk, watch, gone, events, batch, pc, copyVars, readerVars, missed>>

-----------------------------------------------------------------------------
(* fileMonitor, and the update it calls                                    *)

Read ==
  /\ pc = "read" /\ events # <<>>
  /\ batch' = events /\ events' = <<>>
  /\ pc' = "event"
  /\ UNCHANGED <<disk, dir, watch, gone, copyVars, readerVars, missed>>

\* A reader on a copy that changes under it: what it does is not defined.
Disturb(readers) ==
  /\ rpc' = [r \in Readers |-> IF r \in readers THEN "undefined" ELSE rpc[r]]
  /\ UNCHANGED <<rseg, words, rdict, answer, quiet>>

\* dataUpdate finds the name of the file and update empties the spare
\* segmentation; the name of the directory is no file it knows.
HandleEvent ==
  /\ pc = "event" /\ batch # <<>>
  /\ batch' = Tail(batch)
  /\ IF Head(batch) = "IN_MOVED_TO"
     THEN /\ seg' = [seg EXCEPT ![segUpd] = Torn]
          /\ Disturb({r \in Readers : rpc[r] = "cut" /\ rseg[r] = segUpd})
          /\ pc' = "segment"
     ELSE UNCHANGED <<seg, readerVars, pc>>
  /\ UNCHANGED <<fileVars, dict, segUse, dictUse, missed>>

Failed ==
  /\ pc' = "event"
  /\ missed' = "failed"

\* MixSegment::update reads the models and the file; then
\* _updateUserWordDict clears the spare dictionary.
UpdateSegment ==
  /\ pc = "segment"
  /\ \/ /\ dir = "there"
        /\ seg' = [seg EXCEPT ![segUpd] = disk]
        /\ dict' = [dict EXCEPT ![dictUpd] = Torn]
        /\ Disturb({r \in Readers : rpc[r] = "find" /\ rdict[r] = dictUpd})
        /\ pc' = "dict"
        /\ UNCHANGED missed
     \/ Failed /\ UNCHANGED <<seg, dict, readerVars>>
  /\ UNCHANGED <<fileVars, batch, segUse, dictUse>>

\* Mutant of UpdateDict: update ignores what _updateUserWordDict returned.
UpdateDict_Ignored ==
  /\ pc = "dict"
  /\ \/ dir = "there" /\ dict' = [dict EXCEPT ![dictUpd] = disk]
     \/ UNCHANGED dict
  /\ pc' = "swapSegment"
  /\ UNCHANGED <<fileVars, batch, seg, segUse, dictUse, readerVars, missed>>

\* _updateUserWordDict opens the file again and reads it.
UpdateDict ==
  /\ pc = "dict"
  /\ \/ /\ dir = "there"
        /\ dict' = [dict EXCEPT ![dictUpd] = disk]
        /\ pc' = "swapSegment"
        /\ UNCHANGED missed
     \/ Failed /\ UNCHANGED dict
  /\ UNCHANGED <<fileVars, batch, seg, segUse, dictUse, readerVars>>

SwapSegment ==
  /\ pc = "swapSegment" /\ pc' = "swapDict"
  /\ segUse' = segUpd
  /\ quiet' = {}
  /\ UNCHANGED <<fileVars, batch, seg, dict, dictUse, rpc, rseg, words, rdict, answer, missed>>

\* Mutant of SwapDict: only the segmentation is swapped.
SwapDict_Forgotten ==
  /\ pc = "swapDict" /\ pc' = "event"
  /\ quiet' = {}
  /\ missed' = IF missed = "failed" THEN "no" ELSE missed
  /\ UNCHANGED <<fileVars, batch, seg, dict, segUse, dictUse, rpc, rseg, words, rdict, answer>>

\* The update is complete: an update that failed before has been made up for.
SwapDict ==
  /\ pc = "swapDict" /\ pc' = "event"
  /\ dictUse' = dictUpd
  /\ quiet' = {}
  /\ missed' = IF missed = "failed" THEN "no" ELSE missed
  /\ UNCHANGED <<fileVars, batch, seg, dict, segUse, rpc, rseg, words, rdict, answer>>

\* Mutant of Rewatch: fileMonitor drops what came while it handled a batch.
Rewatch_Drop ==
  /\ pc = "event" /\ batch = <<>>
  /\ \/ dir = "there" /\ watch' = "on" /\ pc' = "read"
     \/ pc' = "exited" /\ UNCHANGED watch
  /\ events' = <<>>
  /\ UNCHANGED <<disk, dir, gone, batch, copyVars, readerVars, missed>>

\* inotify_add_watch after every batch; the thread ends when it fails, as it may
\* even when the directory is there.
Rewatch ==
  /\ pc = "event" /\ batch = <<>>
  /\ \/ dir = "there" /\ watch' = "on" /\ pc' = "read"
     \/ pc' = "exited" /\ UNCHANGED watch
  /\ UNCHANGED <<disk, dir, gone, events, batch, copyVars, readerVars, missed>>

-----------------------------------------------------------------------------
(* hasUserWord                                                             *)

\* The pointer to the segmentation is read and cut begins.
Begin(r) ==
  /\ rpc[r] \in {"idle", "done"}
  /\ rpc' = [rpc EXCEPT ![r] = IF seg[segUse] = Torn THEN "undefined" ELSE "cut"]
  /\ rseg' = [rseg EXCEPT ![r] = segUse]
  /\ quiet' = quiet \cup {r}
  /\ UNCHANGED <<fileVars, batch, pc, copyVars, words, rdict, answer, missed>>

\* cut returns; find reads the pointer to the dictionary.
Cut(r) ==
  /\ rpc[r] = "cut"
  /\ words' = [words EXCEPT ![r] = seg[rseg[r]]]
  /\ rdict' = [rdict EXCEPT ![r] = dictUse]
  /\ rpc' = [rpc EXCEPT ![r] = IF dict[dictUse] = Torn THEN "undefined" ELSE "find"]
  /\ UNCHANGED <<fileVars, batch, pc, copyVars, rseg, answer, quiet, missed>>

\* find returns and is compared with end(), through the pointer once more: the
\* ends of two maps differ, so after a swap any word counts as found.
Find(r) ==
  /\ rpc[r] = "find"
  /\ answer' = [answer EXCEPT ![r] =
       IF {words[r], dict[rdict[r]]} \subseteq Sensitive \/ rdict[r] # dictUse
       THEN "found" ELSE "clean"]
  /\ rpc' = [rpc EXCEPT ![r] = "done"]
  /\ UNCHANGED <<fileVars, batch, pc, copyVars, rseg, words, rdict, quiet, missed>>

-----------------------------------------------------------------------------
\* After init: one copy was filled, the other is still empty.
Init ==
  /\ disk = 0 /\ dir = "there" /\ watch = "on" /\ gone = 0
  /\ events = <<>> /\ batch = <<>> /\ pc = "read"
  /\ seg = [c \in Copy |-> IF c = 2 THEN 0 ELSE Torn] /\ segUse = 2
  /\ dict = [c \in Copy |-> IF c = 2 THEN 0 ELSE Torn] /\ dictUse = 2
  /\ rpc = [r \in Readers |-> "idle"]
  /\ rseg = [r \in Readers |-> 2] /\ rdict = [r \in Readers |-> 2]
  /\ words = [r \in Readers |-> 0] /\ answer = [r \in Readers |-> "clean"]
  /\ quiet = {} /\ missed = "no"

File == Replace \/ Remove \/ Restore

update == UpdateSegment \/ UpdateDict \/ SwapSegment \/ SwapDict

fileMonitor == Read \/ HandleEvent \/ update \/ Rewatch

hasUserWord(r) == Begin(r) \/ Cut(r) \/ Find(r)

Next == File \/ fileMonitor \/ \E r \in Readers : hasUserWord(r)

Spec == Init /\ [][Next]_vars

\* The monitor's thread is scheduled; nothing else has to happen.
FairSpec == Spec /\ WF_vars(fileMonitor)

-----------------------------------------------------------------------------
(* Properties                                                              *)

\* Types of all variables.
TypeOK ==
  /\ disk \in Versions /\ gone \in Nat
  /\ dir \in {"there", "gone"} /\ watch \in {"on", "off"}
  /\ events \in Seq({"IN_MOVED_TO", "IN_DELETE_SELF"})
  /\ batch \in Seq({"IN_MOVED_TO", "IN_DELETE_SELF"})
  /\ pc \in {"read", "event", "segment", "dict", "swapSegment", "swapDict", "exited"}
  /\ seg \in [Copy -> Versions \cup {Torn}] /\ dict \in [Copy -> Versions \cup {Torn}]
  /\ segUse \in Copy /\ dictUse \in Copy
  /\ rpc \in [Readers -> {"idle", "cut", "find", "done", "undefined"}]
  /\ rseg \in [Readers -> Copy] /\ rdict \in [Readers -> Copy]
  /\ words \in [Readers -> Versions]
  /\ answer \in [Readers -> {"found", "clean"}]
  /\ quiet \subseteq Readers /\ missed \in {"no", "failed", "unseen"}

\* hasUserWord takes no lock, yet a call during which no update is published
\* never meets a copy that is being filled, whatever update does and wherever it
\* fails, and its answer is that of the dictionaries in use.
QuietAnswer ==
  \A r \in quiet :
    /\ rpc[r] # "undefined"
    /\ rpc[r] = "done" =>
         (answer[r] = "found" <=> {seg[segUse], dict[dictUse]} \subseteq Sensitive)

\* A change of the file is on its way to the readers until they see it: the
\* dictionaries in use are those of the file, or its event is queued or the
\* update that reads it still runs.  Only a failed update and a change while the
\* directory was not watched are lost.
Pending ==
  \/ \E i \in DOMAIN events : events[i] = "IN_MOVED_TO"
  \/ \E i \in DOMAIN batch : batch[i] = "IN_MOVED_TO"
  \/ pc = "segment"
  \/ pc \in {"dict", "swapSegment"} /\ seg[segUpd] = disk /\ (pc = "dict" \/ dict[dictUpd] = disk)
  \/ pc = "swapDict" /\ seg[segUse] = disk /\ dict[dictUpd] = disk

ChangePending ==
  missed = "no" => Pending \/ (seg[segUse] = disk /\ dict[dictUse] = disk)

\* When the file and its directory change no more, the readers get the last
\* version, unless it was lost.
FreshEventually ==
  <>[](\/ missed # "no" \/ pc = "exited"
       \/ seg[segUse] = disk /\ dict[dictUse] = disk)

=============================================================================
