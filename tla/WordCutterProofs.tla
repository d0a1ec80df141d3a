-------------------------- MODULE WordCutterProofs --------------------------
(***************************************************************************)
(* Proofs about WordCutter for any readers, versions and sensitive words.  *)
(* Three things are strengthened: a copy in use is filled, and so is the   *)
(* spare one from its update to the swap; a call during which nothing is   *)
(* swapped works on the copies in use; and an update that has read the     *)
(* file has read its last version, or the event of a later one is queued.  *)
(***************************************************************************)
EXTENDS WordCutter, TLAPS

USE WordCutterAssumption

Filled ==
  /\ seg[segUse] # Torn /\ dict[dictUse] # Torn
  /\ pc \in {"dict", "swapSegment"} => seg[segUpd] # Torn
  /\ pc \in {"swapSegment", "swapDict"} => dict[dictUpd] # Torn

\* A reader is on a copy that is filled, until update takes it.
ReadersFilled ==
  \A r \in Readers :
    /\ rpc[r] = "cut" => seg[rseg[r]] # Torn
    /\ rpc[r] = "find" => dict[rdict[r]] # Torn

QuietInUse ==
  \A r \in quiet :
    /\ rpc[r] \in {"cut", "find", "done"}
    /\ rpc[r] = "cut" => rseg[r] = segUse
    /\ rpc[r] = "find" => rdict[r] = dictUse /\ words[r] = seg[segUse]
    /\ rpc[r] = "done" =>
         (answer[r] = "found" <=> {seg[segUse], dict[dictUse]} \subseteq Sensitive)

Queued ==
  \/ \E i \in DOMAIN events : events[i] = "IN_MOVED_TO"
  \/ \E i \in DOMAIN batch : batch[i] = "IN_MOVED_TO"

\* The update that runs has read the last version, or another one will follow.
UpdateFresh ==
  missed # "unseen" =>
    \/ Queued
    \/ /\ pc \in {"dict", "swapSegment"} => seg[segUpd] = disk
       /\ pc = "swapDict" => seg[segUse] = disk
       /\ pc \in {"swapSegment", "swapDict"} => dict[dictUpd] = disk

ReadInv == TypeOK /\ Filled /\ ReadersFilled /\ QuietInUse

-----------------------------------------------------------------------------
(* Types and the readers                                                   *)

LEMMA Spare ==
  ASSUME TypeOK
  PROVE  /\ segUpd \in Copy /\ segUpd # segUse /\ Other(segUpd) = segUse
         /\ dictUpd \in Copy /\ dictUpd # dictUse /\ Other(dictUpd) = dictUse
BY DEF TypeOK, segUpd, dictUpd, Other, Copy

LEMMA InitRead == Init => ReadInv
BY DEF Init, ReadInv, TypeOK, Filled, ReadersFilled, QuietInUse, Copy, segUpd, dictUpd, Other

\* What the readers' part of the invariant is read from.
LEMMA ReadFrame ==
  ASSUME ReadInv, TypeOK', UNCHANGED <<copyVars, readerVars>>,
         pc' \in {"dict", "swapSegment"} => pc' = pc,
         pc' = "swapDict" => pc = "swapDict"
  PROVE  ReadInv'
BY DEF ReadInv, Filled, ReadersFilled, QuietInUse, copyVars, readerVars, segUpd, dictUpd

LEMMA ReadFile ==
  ASSUME ReadInv, File PROVE ReadInv'
<1>0. TypeOK
  BY DEF ReadInv
<1>1. TypeOK' /\ UNCHANGED <<copyVars, readerVars, pc>>
  <2>1. CASE Replace
    BY <1>0, <2>1 DEF Replace, TypeOK, copyVars, readerVars
  <2>2. CASE Remove
    BY <1>0, <2>2 DEF Remove, TypeOK, copyVars, readerVars
  <2>3. CASE Restore
    BY <1>0, <2>3 DEF Restore, TypeOK, copyVars, readerVars
  <2> QED BY <2>1, <2>2, <2>3 DEF File
<1> QED BY <1>1, ReadFrame

LEMMA ReadHandleEvent ==
  ASSUME ReadInv, HandleEvent PROVE ReadInv'
<1>0. TypeOK /\ Filled /\ ReadersFilled /\ QuietInUse
  BY DEF ReadInv
<1>1. /\ pc = "event" /\ batch' = Tail(batch) /\ Tail(batch) \in Seq({"IN_MOVED_TO", "IN_DELETE_SELF"})
      /\ UNCHANGED <<fileVars, dict, segUse, dictUse, missed>>
  BY <1>0 DEF HandleEvent, TypeOK
<1>2. CASE Head(batch) # "IN_MOVED_TO"
  <2>1. UNCHANGED <<seg, readerVars, pc>>
    BY <1>2 DEF HandleEvent
  <2>2. TypeOK'
    BY <1>0, <1>1, <2>1 DEF TypeOK, fileVars, readerVars
  <2> QED BY <1>1, <2>1, <2>2, ReadFrame DEF copyVars
<1>3. CASE Head(batch) = "IN_MOVED_TO"
  <2>1. PICK c \in Copy : c = segUpd /\ c # segUse
    BY <1>0, Spare
  <2>2. /\ seg' = [seg EXCEPT ![c] = Torn] /\ pc' = "segment"
        /\ rpc' = [r \in Readers |-> IF r \in {x \in Readers : rpc[x] = "cut" /\ rseg[x] = c}
                                     THEN "undefined" ELSE rpc[r]]
        /\ UNCHANGED <<rseg, words, rdict, answer, quiet>>
    BY <1>3, <2>1 DEF HandleEvent, Disturb
  <2>3. TypeOK'
    BY <1>0, <1>1, <2>2 DEF TypeOK, fileVars
  <2>4. Filled'
    BY <1>0, <1>1, <2>1, <2>2 DEF Filled, TypeOK
  <2>5. ReadersFilled'
    BY <1>0, <1>1, <2>2 DEF ReadersFilled, TypeOK
  <2>6. QuietInUse'
    BY <1>0, <1>1, <2>1, <2>2 DEF QuietInUse, TypeOK
  <2> QED BY <2>3, <2>4, <2>5, <2>6 DEF ReadInv
<1> QED BY <1>2, <1>3

LEMMA ReadUpdateSegment ==
  ASSUME ReadInv, UpdateSegment PROVE ReadInv'
<1>0. TypeOK /\ Filled /\ ReadersFilled /\ QuietInUse
  BY DEF ReadInv
<1>1. pc = "segment" /\ UNCHANGED <<fileVars, batch, segUse, dictUse>>
  BY DEF UpdateSegment
<1>2. CASE Failed /\ UNCHANGED <<seg, dict, readerVars>>
  <2>1. TypeOK'
    BY <1>0, <1>1, <1>2 DEF TypeOK, fileVars, readerVars, Failed
  <2> QED BY <1>1, <1>2, <2>1, ReadFrame DEF copyVars, Failed
<1>3. CASE ~(Failed /\ UNCHANGED <<seg, dict, readerVars>>)
  <2>1. PICK c \in Copy, d \in Copy : c = segUpd /\ c # segUse /\ d = dictUpd /\ d # dictUse
    BY <1>0, Spare
  <2>2. /\ seg' = [seg EXCEPT ![c] = disk] /\ dict' = [dict EXCEPT ![d] = Torn] /\ pc' = "dict"
        /\ rpc' = [r \in Readers |-> IF r \in {x \in Readers : rpc[x] = "find" /\ rdict[x] = d}
                                     THEN "undefined" ELSE rpc[r]]
        /\ UNCHANGED <<rseg, words, rdict, answer, quiet, missed>>
    BY <1>3, <2>1 DEF UpdateSegment, Disturb
  <2>3. TypeOK'
    BY <1>0, <1>1, <2>2 DEF TypeOK, fileVars
  <2>4. seg'[segUpd'] = disk /\ disk # Torn
    BY <1>0, <1>1, <2>1, <2>2 DEF TypeOK, segUpd
  <2>5. Filled'
    BY <1>0, <1>1, <2>1, <2>2, <2>4 DEF Filled, TypeOK
  <2>6. ReadersFilled'
    BY <1>0, <1>1, <2>2, <2>4 DEF ReadersFilled, TypeOK
  <2>7. QuietInUse'
    BY <1>0, <1>1, <2>1, <2>2 DEF QuietInUse, TypeOK
  <2> QED BY <2>3, <2>5, <2>6, <2>7 DEF ReadInv
<1> QED BY <1>2, <1>3

LEMMA ReadUpdateDict ==
  ASSUME ReadInv, UpdateDict PROVE ReadInv'
<1>0. TypeOK /\ Filled /\ ReadersFilled /\ QuietInUse
  BY DEF ReadInv
<1>1. pc = "dict" /\ UNCHANGED <<fileVars, batch, seg, segUse, dictUse, readerVars>>
  BY DEF UpdateDict
<1>2. CASE Failed /\ UNCHANGED dict
  <2>1. TypeOK'
    BY <1>0, <1>1, <1>2 DEF TypeOK, fileVars, readerVars, Failed
  <2> QED BY <1>1, <1>2, <2>1, ReadFrame DEF copyVars, Failed
<1>3. CASE ~(Failed /\ UNCHANGED dict)
  <2>1. PICK d \in Copy : d = dictUpd /\ d # dictUse
    BY <1>0, Spare
  <2>2. dict' = [dict EXCEPT ![d] = disk] /\ pc' = "swapSegment" /\ missed' = missed
    BY <1>3, <2>1 DEF UpdateDict
  <2>3. TypeOK'
    BY <1>0, <1>1, <2>2 DEF TypeOK, fileVars, readerVars
  <2>4. dict'[dictUpd'] = disk /\ disk # Torn /\ segUpd' = segUpd
    BY <1>0, <1>1, <2>1, <2>2 DEF TypeOK, dictUpd, segUpd
  <2>5. Filled'
    BY <1>0, <1>1, <2>1, <2>2, <2>4 DEF Filled, TypeOK
  <2>6. ReadersFilled'
    BY <1>0, <1>1, <2>2, <2>4 DEF ReadersFilled, TypeOK, readerVars
  <2>7. QuietInUse'
    BY <1>0, <1>1, <2>1, <2>2 DEF QuietInUse, TypeOK, readerVars
  <2> QED BY <2>3, <2>5, <2>6, <2>7 DEF ReadInv
<1> QED BY <1>2, <1>3

LEMMA ReadSwap ==
  ASSUME ReadInv, SwapSegment \/ SwapDict PROVE ReadInv'
<1>0. TypeOK /\ Filled /\ ReadersFilled /\ QuietInUse
  BY DEF ReadInv
<1>1. QuietInUse' /\ UNCHANGED <<fileVars, batch, seg, dict, rpc, rseg, words, rdict, answer>>
  BY DEF SwapSegment, SwapDict, QuietInUse
<1>2. ReadersFilled'
  BY <1>0, <1>1 DEF ReadersFilled
<1>3. CASE SwapSegment
  <2>1. /\ segUse' = segUpd /\ dictUpd' = dictUpd /\ dictUse' = dictUse /\ missed' = missed
        /\ quiet' = {} /\ pc = "swapSegment" /\ pc' = "swapDict"
    BY <1>3 DEF SwapSegment, dictUpd
  <2>2. TypeOK'
    BY <1>0, <1>1, <2>1, Spare DEF TypeOK, fileVars
  <2>3. Filled'
    BY <1>0, <1>1, <2>1 DEF Filled
  <2> QED BY <1>1, <1>2, <2>2, <2>3 DEF ReadInv
<1>4. CASE SwapDict
  <2>1. /\ dictUse' = dictUpd /\ segUse' = segUse /\ missed' \in {"no", missed}
        /\ quiet' = {} /\ pc = "swapDict" /\ pc' = "event"
    BY <1>4 DEF SwapDict
  <2>2. TypeOK'
    BY <1>0, <1>1, <2>1, Spare DEF TypeOK, fileVars
  <2>3. Filled'
    BY <1>0, <1>1, <2>1 DEF Filled
  <2> QED BY <1>1, <1>2, <2>2, <2>3 DEF ReadInv
<1> QED BY <1>3, <1>4

LEMMA ReadMonitor ==
  ASSUME ReadInv, fileMonitor PROVE ReadInv'
<1>0. TypeOK
  BY DEF ReadInv
<1>1. CASE Read
  <2>1. TypeOK' /\ UNCHANGED <<copyVars, readerVars>> /\ pc' = "event"
    BY <1>0, <1>1 DEF Read, TypeOK, copyVars, readerVars
  <2> QED BY <2>1, ReadFrame
<1>2. CASE Rewatch
  <2>1. TypeOK' /\ UNCHANGED <<copyVars, readerVars>> /\ pc' \in {"read", "exited"}
    BY <1>0, <1>2 DEF Rewatch, TypeOK, copyVars, readerVars
  <2> QED BY <2>1, ReadFrame
<1> QED BY <1>1, <1>2, ReadHandleEvent, ReadUpdateSegment, ReadUpdateDict, ReadSwap
    DEF fileMonitor, update

LEMMA ReadReader ==
  ASSUME ReadInv, NEW r \in Readers, hasUserWord(r) PROVE ReadInv'
<1>0. TypeOK /\ Filled /\ ReadersFilled /\ QuietInUse
  BY DEF ReadInv
<1>s. UNCHANGED <<fileVars, batch, pc, copyVars, missed, segUpd, dictUpd>>
  BY DEF hasUserWord, Begin, Cut, Find, segUpd, dictUpd, copyVars
<1>f. Filled'
  BY <1>0, <1>s DEF Filled, copyVars
<1>1. CASE Begin(r)
  <2>1. /\ rpc' = [rpc EXCEPT ![r] = "cut"] /\ rseg' = [rseg EXCEPT ![r] = segUse]
        /\ quiet' = quiet \cup {r} /\ UNCHANGED <<words, rdict, answer>>
    BY <1>0, <1>1 DEF Begin, Filled
  <2>2. TypeOK'
    BY <1>0, <1>s, <2>1 DEF TypeOK, fileVars, copyVars
  <2>3. ReadersFilled' /\ QuietInUse'
    BY <1>0, <1>s, <2>1 DEF TypeOK, Filled, ReadersFilled, QuietInUse, copyVars
  <2> QED BY <1>f, <2>2, <2>3 DEF ReadInv
<1>2. CASE Cut(r)
  <2>1. /\ rpc' = [rpc EXCEPT ![r] = "find"] /\ words' = [words EXCEPT ![r] = seg[rseg[r]]]
        /\ rdict' = [rdict EXCEPT ![r] = dictUse] /\ UNCHANGED <<rseg, answer, quiet>> /\ rpc[r] = "cut"
    BY <1>0, <1>2 DEF Cut, Filled
  <2>2. seg[rseg[r]] \in Versions
    BY <1>0, <2>1 DEF TypeOK, ReadersFilled
  <2>3. TypeOK'
    BY <1>0, <1>s, <2>1, <2>2 DEF TypeOK, fileVars, copyVars
  <2>4. ReadersFilled' /\ QuietInUse'
    BY <1>0, <1>s, <2>1 DEF TypeOK, Filled, ReadersFilled, QuietInUse, copyVars
  <2> QED BY <1>f, <2>3, <2>4 DEF ReadInv
<1>3. CASE Find(r)
  <2>1. /\ rpc' = [rpc EXCEPT ![r] = "done"] /\ rpc[r] = "find"
        /\ answer' = [answer EXCEPT ![r] =
             IF {words[r], dict[rdict[r]]} \subseteq Sensitive \/ rdict[r] # dictUse
             THEN "found" ELSE "clean"]
        /\ UNCHANGED <<rseg, words, rdict, quiet>>
    BY <1>3 DEF Find
  <2>2. TypeOK'
    BY <1>0, <1>s, <2>1 DEF TypeOK, fileVars, copyVars
  <2>3. ReadersFilled'
    BY <1>0, <1>s, <2>1 DEF TypeOK, ReadersFilled, copyVars
  <2>4. QuietInUse'
    <3> SUFFICES ASSUME NEW x \in quiet
                 PROVE  /\ rpc'[x] \in {"cut", "find", "done"}
                        /\ rpc'[x] = "cut" => rseg[x] = segUse
                        /\ rpc'[x] = "find" => rdict[x] = dictUse /\ words[x] = seg[segUse]
                        /\ rpc'[x] = "done" =>
                             (answer'[x] = "found" <=> {seg[segUse], dict[dictUse]} \subseteq Sensitive)
      BY <1>s, <2>1 DEF QuietInUse, copyVars
    <3>0. x \in Readers
      BY <1>0 DEF TypeOK
    <3>1. CASE x # r
      BY <1>0, <2>1, <3>0, <3>1 DEF TypeOK, QuietInUse
    <3>2. CASE x = r
      <4>1. rdict[r] = dictUse /\ words[r] = seg[segUse]
        BY <1>0, <2>1, <3>2 DEF QuietInUse
      <4> QED BY <1>0, <2>1, <3>2, <4>1 DEF TypeOK
    <3> QED BY <3>1, <3>2
  <2> QED BY <1>f, <2>2, <2>3, <2>4 DEF ReadInv
<1> QED BY <1>1, <1>2, <1>3 DEF hasUserWord

LEMMA NextRead == ReadInv /\ [Next]_vars => ReadInv'
<1> SUFFICES ASSUME ReadInv, [Next]_vars PROVE ReadInv'
  OBVIOUS
<1>1. CASE UNCHANGED vars
  BY <1>1 DEF vars, fileVars, copyVars, readerVars, ReadInv, TypeOK, Filled, ReadersFilled, QuietInUse,
     segUpd, dictUpd
<1> QED BY <1>1, ReadFile, ReadMonitor, ReadReader DEF Next

LEMMA ReadInvariance == Spec => []ReadInv
BY InitRead, NextRead, PTL DEF Spec

\* All variables keep their types: no reader gets words from a copy that is empty.
THEOREM TypeCorrect == Spec => []TypeOK
<1>1. ReadInv => TypeOK
  BY DEF ReadInv
<1> QED BY <1>1, ReadInvariance, PTL

\* Any number of hasUserWord calls, which take no lock, are safe from update and
\* answer by the dictionaries in use, as long as nothing is swapped during them.
THEOREM QuietAnswerHolds == Spec => []QuietAnswer
<1>1. ReadInv => QuietAnswer
  BY DEF ReadInv, QuietInUse, QuietAnswer
<1> QED BY <1>1, ReadInvariance, PTL

-----------------------------------------------------------------------------
(* Changes on their way                                                    *)

ReadsAfterBatch == pc = "read" => batch = <<>>

ChangeInv == ReadInv /\ UpdateFresh /\ ChangePending /\ ReadsAfterBatch

LEMMA ChangeFile ==
  ASSUME ChangeInv, File PROVE UpdateFresh' /\ ChangePending'
<1>0. TypeOK /\ UpdateFresh /\ ChangePending
  BY DEF ChangeInv, ReadInv
<1>1. UNCHANGED <<batch, pc, seg, dict, segUse, dictUse, segUpd, dictUpd>>
  BY DEF File, Replace, Remove, Restore, copyVars, segUpd, dictUpd
<1>2. ASSUME NEW e \in {"IN_MOVED_TO", "IN_DELETE_SELF"}, events' = Append(events, e)
      PROVE  Queued \/ e = "IN_MOVED_TO" => Queued'
  <2>1. /\ events \in Seq({"IN_MOVED_TO", "IN_DELETE_SELF"}) /\ Len(events) \in Nat
        /\ DOMAIN events = 1 .. Len(events) /\ DOMAIN events' = 1 .. Len(events) + 1
        /\ \A i \in DOMAIN events : events'[i] = events[i]
        /\ events'[Len(events) + 1] = e
    BY <1>0, <1>2 DEF TypeOK
  <2>2. CASE e = "IN_MOVED_TO"
    BY <2>1, <2>2 DEF Queued
  <2>3. CASE Queued
    BY <2>1, <2>3, <1>1 DEF Queued
  <2> QED BY <2>2, <2>3
<1>3. CASE Replace
  <2>1. CASE watch # "on"
    BY <1>3, <2>1 DEF Replace, UpdateFresh, ChangePending
  <2>2. CASE watch = "on"
    <3>1. Queued'
      BY <1>2, <1>3, <2>2 DEF Replace
    <3> QED BY <3>1 DEF UpdateFresh, ChangePending, Pending, Queued
  <2> QED BY <2>1, <2>2
<1>4. CASE Remove \/ Restore
  <2>1. disk' = disk /\ missed' = missed /\ (Queued => Queued')
    BY <1>1, <1>2, <1>4 DEF Remove, Restore, Queued
  <2>2. UpdateFresh'
    BY <1>0, <1>1, <2>1 DEF UpdateFresh
  <2>3. ChangePending'
    BY <1>0, <1>1, <2>1 DEF ChangePending, Pending, Queued
  <2> QED BY <2>2, <2>3
<1> QED BY <1>3, <1>4 DEF File

LEMMA ChangeEvent ==
  ASSUME ChangeInv, Read \/ HandleEvent \/ Rewatch PROVE UpdateFresh' /\ ChangePending'
<1>0. TypeOK /\ UpdateFresh /\ ChangePending
  BY DEF ChangeInv, ReadInv
<1>1. CASE Read
  <2>1. /\ batch' = events /\ pc' = "event" /\ pc = "read"
        /\ UNCHANGED <<disk, seg, dict, segUse, dictUse, missed, segUpd, dictUpd>>
    BY <1>1 DEF Read, copyVars, segUpd, dictUpd
  <2>2. UpdateFresh'
    BY <2>1 DEF UpdateFresh
  <2>3. ChangePending'
    <3>1. batch = <<>>
      BY <2>1 DEF ChangeInv, ReadsAfterBatch
    <3> QED BY <1>0, <2>1, <3>1 DEF ChangePending, Pending
  <2> QED BY <2>2, <2>3
<1>2. CASE HandleEvent
  <2>1. /\ pc = "event" /\ batch' = Tail(batch) /\ batch # <<>>
        /\ UNCHANGED <<events, disk, dict, segUse, dictUse, missed, dictUpd, segUpd>>
    BY <1>2 DEF HandleEvent, fileVars, dictUpd, segUpd
  <2>2. CASE Head(batch) = "IN_MOVED_TO"
    <3>1. pc' = "segment"
      BY <1>2, <2>2 DEF HandleEvent
    <3> QED BY <3>1 DEF UpdateFresh, ChangePending, Pending
  <2>3. CASE Head(batch) # "IN_MOVED_TO"
    <3>1. UNCHANGED <<seg, pc>>
      BY <1>2, <2>3 DEF HandleEvent
    <3>2. Queued => Queued'
      <4>1. /\ Len(batch) \in Nat /\ DOMAIN batch = 1 .. Len(batch) /\ Head(batch) = batch[1]
            /\ DOMAIN Tail(batch) = 1 .. Len(batch) - 1
            /\ \A i \in 1 .. Len(batch) - 1 : Tail(batch)[i] = batch[i + 1]
        BY <1>0, <2>1 DEF TypeOK
      <4>2. ASSUME NEW i \in DOMAIN batch, batch[i] = "IN_MOVED_TO"
            PROVE  \E j \in DOMAIN Tail(batch) : Tail(batch)[j] = "IN_MOVED_TO"
        <5>1. i - 1 \in 1 .. Len(batch) - 1 /\ Tail(batch)[i - 1] = batch[(i - 1) + 1] /\ (i - 1) + 1 = i
          BY <2>3, <4>1, <4>2
        <5> QED BY <4>1, <4>2, <5>1
      <4> QED BY <2>1, <4>2 DEF Queued
    <3>3. UpdateFresh'
      BY <1>0, <2>1, <3>1, <3>2 DEF UpdateFresh
    <3>4. ChangePending'
      BY <1>0, <2>1, <3>1, <3>2 DEF ChangePending, Pending, Queued
    <3> QED BY <3>3, <3>4
  <2> QED BY <2>2, <2>3
<1>3. CASE Rewatch
  <2>1. /\ pc = "event" /\ pc' \in {"read", "exited"}
        /\ UNCHANGED <<disk, events, batch, seg, dict, segUse, dictUse, missed, segUpd, dictUpd>>
    BY <1>3 DEF Rewatch, copyVars, segUpd, dictUpd
  <2> QED BY <1>0, <2>1 DEF UpdateFresh, ChangePending, Pending
<1> QED BY <1>1, <1>2, <1>3

LEMMA ChangeUpdate ==
  ASSUME ChangeInv, update PROVE UpdateFresh' /\ ChangePending'
<1>0. TypeOK /\ UpdateFresh /\ ChangePending
  BY DEF ChangeInv, ReadInv
<1>q. UNCHANGED <<events, batch, disk>> /\ (Queued <=> Queued')
  BY DEF update, UpdateSegment, UpdateDict, SwapSegment, SwapDict, fileVars, Queued
<1>1. CASE Failed
  BY <1>1 DEF Failed, UpdateFresh, ChangePending
<1>2. CASE UpdateSegment /\ ~Failed
  <2>1. PICK c \in Copy : c = segUpd /\ c = segUpd'
    BY <1>0, <1>2, Spare DEF UpdateSegment, segUpd
  <2>2. seg' = [seg EXCEPT ![c] = disk] /\ pc' = "dict" /\ disk' = disk
    BY <1>2, <1>q, <2>1 DEF UpdateSegment
  <2>3. seg'[segUpd'] = disk'
    BY <1>0, <2>1, <2>2 DEF TypeOK
  <2> QED BY <2>2, <2>3 DEF UpdateFresh, ChangePending, Pending
<1>3. CASE UpdateDict /\ ~Failed
  <2>1. PICK d \in Copy : d = dictUpd /\ d = dictUpd'
    BY <1>0, <1>3, Spare DEF UpdateDict, dictUpd
  <2>2. /\ dict' = [dict EXCEPT ![d] = disk] /\ pc' = "swapSegment" /\ pc = "dict"
        /\ UNCHANGED <<seg, missed, segUpd, disk>>
    BY <1>3, <1>q, <2>1 DEF UpdateDict, segUpd
  <2>3. dict'[dictUpd'] = disk'
    BY <1>0, <2>1, <2>2 DEF TypeOK
  <2>4. missed # "unseen" => Queued \/ seg[segUpd] = disk
    BY <1>0, <2>2 DEF UpdateFresh
  <2> QED BY <1>q, <2>2, <2>3, <2>4 DEF UpdateFresh, ChangePending, Pending, Queued
<1>4. CASE SwapSegment
  <2>1. /\ segUse' = segUpd /\ pc = "swapSegment" /\ pc' = "swapDict"
        /\ UNCHANGED <<seg, dict, dictUpd, missed>>
    BY <1>4 DEF SwapSegment, dictUpd
  <2>2. missed # "unseen" => Queued \/ (seg[segUpd] = disk /\ dict[dictUpd] = disk)
    BY <1>0, <2>1 DEF UpdateFresh
  <2> QED BY <1>q, <2>1, <2>2 DEF UpdateFresh, ChangePending, Pending, Queued
<1>5. CASE SwapDict
  <2>2. missed # "unseen" => Queued \/ (seg[segUse] = disk /\ dict[dictUpd] = disk)
    BY <1>0, <1>5 DEF UpdateFresh, SwapDict
  <2>3. dictUse' = dictUpd /\ pc' = "event" /\ (missed' = "no" => missed # "unseen") /\ UNCHANGED <<seg, dict, segUse>>
    BY <1>5 DEF SwapDict
  <2> QED BY <1>q, <2>2, <2>3 DEF UpdateFresh, ChangePending, Pending, Queued
<1> QED BY <1>1, <1>2, <1>3, <1>4, <1>5 DEF update

LEMMA NextChange == ChangeInv /\ [Next]_vars => UpdateFresh' /\ ChangePending'
<1> SUFFICES ASSUME ChangeInv, [Next]_vars PROVE UpdateFresh' /\ ChangePending'
  OBVIOUS
<1>0. UpdateFresh /\ ChangePending
  BY DEF ChangeInv
<1>1. ASSUME UNCHANGED <<disk, events, batch, pc, seg, dict, segUse, dictUse, missed>>
      PROVE UpdateFresh' /\ ChangePending'
  BY <1>0, <1>1 DEF UpdateFresh, ChangePending, Pending, Queued, segUpd, dictUpd
<1>2. CASE UNCHANGED vars
  BY <1>1, <1>2 DEF vars, fileVars, copyVars
<1>3. ASSUME NEW r \in Readers, hasUserWord(r) PROVE UpdateFresh' /\ ChangePending'
  BY <1>1, <1>3 DEF hasUserWord, Begin, Cut, Find, fileVars, copyVars
<1>4. CASE fileMonitor
  BY <1>4, ChangeEvent, ChangeUpdate DEF fileMonitor
<1> QED BY <1>2, <1>3, <1>4, ChangeFile DEF Next

LEMMA NextReads == ReadsAfterBatch /\ [Next]_vars => ReadsAfterBatch'
<1> SUFFICES ASSUME ReadsAfterBatch, [Next]_vars PROVE ReadsAfterBatch'
  OBVIOUS
<1>1. CASE UNCHANGED vars
  BY <1>1 DEF vars, ReadsAfterBatch
<1>2. CASE File
  BY <1>2 DEF File, Replace, Remove, Restore, ReadsAfterBatch
<1>3. CASE fileMonitor
  BY <1>3 DEF fileMonitor, Read, HandleEvent, update, UpdateSegment, UpdateDict, SwapSegment, SwapDict,
     Failed, Rewatch, ReadsAfterBatch
<1>4. ASSUME NEW r \in Readers, hasUserWord(r) PROVE ReadsAfterBatch'
  BY <1>4 DEF hasUserWord, Begin, Cut, Find, ReadsAfterBatch
<1> QED BY <1>1, <1>2, <1>3, <1>4 DEF Next

LEMMA ChangeInvariance == Spec => []ChangeInv
<1>1. Init => ChangeInv
  <2>1. Init => UpdateFresh /\ ChangePending /\ ReadsAfterBatch
    BY DEF Init, UpdateFresh, ChangePending, ReadsAfterBatch, Copy
  <2> QED BY <2>1, InitRead DEF ChangeInv
<1>2. ChangeInv /\ [Next]_vars => ChangeInv'
  BY NextRead, NextChange, NextReads DEF ChangeInv
<1> QED BY <1>1, <1>2, PTL DEF Spec

\* However the file, its directory and the monitor's thread interleave, and
\* however many versions there are, a change is lost only by an update that fails
\* and while the directory is not watched.
THEOREM ChangePendingHolds == Spec => []ChangePending
<1>1. ChangeInv => ChangePending
  BY DEF ChangeInv
<1> QED BY <1>1, ChangeInvariance, PTL

\* The safety half of FreshEventually: while fileMonitor sleeps in read with no
\* event queued, the dictionaries in use are those of the file, unless an update
\* failed or the file changed without a watch.
THEOREM RestMeansFresh ==
  Spec => [](pc = "read" /\ events = <<>> /\ missed = "no" =>
               seg[segUse] = disk /\ dict[dictUse] = disk)
<1>1. ChangeInv => (pc = "read" /\ events = <<>> /\ missed = "no" =>
                      seg[segUse] = disk /\ dict[dictUse] = disk)
  <2> SUFFICES ASSUME ChangeInv, pc = "read", events = <<>>, missed = "no"
               PROVE  seg[segUse] = disk /\ dict[dictUse] = disk
    OBVIOUS
  <2>1. batch = <<>>
    BY DEF ChangeInv, ReadsAfterBatch
  <2>2. ~Pending
    BY <2>1 DEF Pending
  <2> QED BY <2>2 DEF ChangeInv, ChangePending
<1> QED BY <1>1, ChangeInvariance, PTL

=============================================================================
