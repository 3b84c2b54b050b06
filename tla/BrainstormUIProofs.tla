-------------------------- MODULE BrainstormUIProofs --------------------------
(***************************************************************************)
(* TLAPS proofs about BrainstormUI: the inductive invariant of the tabs    *)
(* and the submission in progress, and the safety properties it implies.   *)
(***************************************************************************)
EXTENDS BrainstormUI, TLAPS

-----------------------------------------------------------------------------
(* The inductive invariant. *)

Reached == {"asked", "deciding", "decided"}
Behind == {"deciding", "decided"}

\* What a tab shows, or a submission is about to make it show, is true of its thread.
Fits(x) ==
    /\ x.thread <= drawn
    /\ x.mode = "awaiting_user_answer" /\ x.thread # 0 => phase[x.thread] \in Reached
    /\ "leg1" \in x.xray => phase[x.thread] # "empty"
    /\ "leg2" \in x.xray /\ x.thread # 0 => phase[x.thread] \in Behind

\* A submission belongs to a tab, and has shown nothing when it begins.
JobInv ==
    /\ job.pc = "idle" => job = NoJob
    /\ job.pc # "idle" => job.tab \in Tabs
    /\ job.pc = "begun" => job.xray = {}

\* No tab but its own is on the thread of the submission in progress, even when its own
\* has been reset meanwhile.
JobIsPrivate == \A t \in Tabs : t # job.tab /\ tab[t].thread = job.thread => job.thread = 0

IInv ==
    /\ TypeOK /\ JobInv
    /\ \A t \in Tabs : Fits(tab[t])
    /\ Fits(job)
    /\ DrawnThreadsArePrivate /\ JobIsPrivate

-----------------------------------------------------------------------------

LEMMA Blanks ==
    /\ MaxThreads \in Nat /\ 0 \in Ids /\ Ids \subseteq Nat
    /\ \A i \in Ids : Fresh(i) \in Tab
    /\ \A i : Fresh(i).thread = i /\ Fresh(i).mode = "awaiting_submit" /\ Fresh(i).xray = {}
    /\ NoJob \in Job /\ NoJob.pc = "idle" /\ NoJob.tab = NoTab /\ NoJob.thread = 0
    /\ NoJob.mode = "awaiting_submit" /\ NoJob.xray = {} /\ NoTab \notin Tabs
  BY UIAssumption DEF Ids, Fresh, Tab, Modes, NoJob, Job

LEMMA InvInit == Init => IInv
  <1> SUFFICES ASSUME Init PROVE IInv
    OBVIOUS
  <1>1. TypeOK
    BY Blanks DEF Init, TypeOK, Phases
  <1>2. JobInv /\ Fits(job) /\ JobIsPrivate /\ DrawnThreadsArePrivate
    BY Blanks DEF Init, JobInv, Fits, JobIsPrivate, DrawnThreadsArePrivate
  <1>3. ASSUME NEW t \in Tabs PROVE Fits(tab[t])
    <2>1. tab[t] = Fresh(0) /\ drawn = 0
      BY DEF Init
    <2>2. QED
      BY <2>1, Blanks DEF Fits
  <1>4. QED
    BY <1>1, <1>2, <1>3 DEF IInv

\* What the invariant says of the submission in progress.
LEMMA TheJob ==
    ASSUME IInv, job.pc # "idle"
    PROVE  /\ job \in Job /\ job.tab \in Tabs /\ job.thread \in Ids /\ job.thread \in Nat
           /\ job.mode \in Modes /\ job.xray \subseteq Fields
           /\ phase[job.thread] \in Phases /\ Fits(job)
  BY Blanks DEF IInv, TypeOK, JobInv, Job

\* One yield of on_submit, after which the submission goes on or is over: it writes its
\* thread, a mode and a pane that are true of the phase p the thread has then.
LEMMA YieldStep ==
    ASSUME IInv, job.pc # "idle", NEW m \in Modes, NEW x \in SUBSET Fields, NEW p \in Phases,
           tab' = [tab EXCEPT ![job.tab] = [thread |-> job.thread, mode |-> m, xray |-> x]],
           phase' = [phase EXCEPT ![job.thread] = p],
           UNCHANGED <<drawn, waiting>>,
           \/ job' = NoJob
           \/ job' = [job EXCEPT !.pc = "running", !.xray = x] /\ m = job.mode,
           p = "empty" => phase[job.thread] = "empty",
           m = "awaiting_user_answer" /\ job.thread # 0 => p \in Reached,
           "leg1" \in x => p # "empty",
           "leg2" \in x /\ job.thread # 0 => p \in Behind
    PROVE  IInv'
  <1> DEFINE y == [thread |-> job.thread, mode |-> m, xray |-> x]
  <1>1. y \in Tab /\ y.thread = job.thread /\ y.mode = m /\ y.xray = x
    BY TheJob DEF Tab
  <1>2. /\ tab' = [tab EXCEPT ![job.tab] = y]
        /\ tab'[job.tab] = y /\ \A t \in Tabs \ {job.tab} : tab'[t] = tab[t] /\ tab[t] \in Tab
        /\ drawn' = drawn /\ waiting' = waiting
    <2>1. tab' = [tab EXCEPT ![job.tab] = y]
      OBVIOUS
    <2> HIDE DEF y
    <2>2. QED
      BY <2>1, TheJob DEF IInv, TypeOK
  <1>3. /\ phase'[job.thread] = p
        /\ \A i \in Ids \ {job.thread} : phase'[i] = phase[i]
    BY TheJob DEF IInv, TypeOK
  <1>4. \/ job' = NoJob
        \/ /\ job'.pc = "running" /\ job'.tab = job.tab /\ job'.thread = job.thread
           /\ job'.mode = m /\ job'.xray = x /\ job' \in Job
    BY TheJob DEF Job
  <1> HIDE DEF y
  <1>5. TypeOK'
    <2>1. tab' \in [Tabs -> Tab] /\ phase' \in [Ids -> Phases]
      BY <1>1, <1>2, TheJob DEF IInv, TypeOK
    <2>2. QED
      BY <1>2, <1>4, <2>1, Blanks DEF IInv, TypeOK
  <1>6. JobInv'
    BY <1>4, TheJob, Blanks DEF JobInv
  <1>7. ASSUME NEW t \in Tabs PROVE Fits(tab[t])'
    <2>1. CASE t = job.tab
      BY <2>1, <1>1, <1>2, <1>3, TheJob DEF Fits
    <2>2. CASE t # job.tab
      <3>1. Fits(tab[t]) /\ tab'[t] = tab[t] /\ tab[t].thread \in Ids
        BY <2>2, <1>2 DEF IInv, Tab
      <3>2. CASE tab[t].thread # job.thread
        BY <3>1, <3>2, <1>2, <1>3 DEF Fits
      <3>3. CASE tab[t].thread = job.thread
        <4>1. job.thread = 0
          BY <2>2, <3>3 DEF IInv, JobIsPrivate
        <4>2. QED
          BY <3>1, <3>3, <4>1, <1>2, <1>3 DEF Fits
      <3>4. QED
        BY <3>2, <3>3
    <2>3. QED
      BY <2>1, <2>2
  <1>8. Fits(job)'
    <2>1. CASE job' = NoJob
      BY <2>1, <1>2, TheJob, Blanks DEF Fits, IInv, TypeOK
    <2>2. CASE job' # NoJob
      BY <2>2, <1>2, <1>3, <1>4, TheJob DEF Fits
    <2>3. QED
      BY <2>1, <2>2
  <1>9. DrawnThreadsArePrivate' /\ JobIsPrivate'
    BY <1>1, <1>2, <1>4, Blanks DEF IInv, DrawnThreadsArePrivate, JobIsPrivate
  <1>10. QED
    BY <1>5, <1>6, <1>7, <1>8, <1>9 DEF IInv

\* Every step of the submission is such a yield.
LEMMA InvJob ==
    ASSUME IInv, Started \/ NodeDone \/ Parsed \/ Stopped \/ Decided \/ Failed
    PROVE  IInv'
  <1> DEFINE q == phase[job.thread]
  <1>1. job.pc # "idle"
    BY DEF Started, NodeDone, Parsed, Stopped, Decided, Failed
  <1>2. /\ job \in Job /\ job.mode \in Modes /\ job.xray \subseteq Fields /\ q \in Phases /\ Fits(job)
        /\ phase = [phase EXCEPT ![job.thread] = q]
        /\ job = [job EXCEPT !.pc = job.pc, !.xray = job.xray]
    BY <1>1, TheJob DEF IInv, TypeOK, Job
  <1>3. CASE Started
    <2>1. job.xray = {} /\ job' = [job EXCEPT !.pc = "running", !.xray = job.xray]
      BY <1>2, <1>3 DEF Started, IInv, JobInv, Job
    <2>2. "framing" \in Phases /\ (Starts(job) => job.mode # "awaiting_user_answer")
      BY DEF Phases, Starts
    <2>3. CASE Starts(job) \/ q = "empty"
      BY <1>1, <1>2, <1>3, <2>1, <2>2, <2>3, YieldStep DEF Started, Yield, Advance, Fits, Reached
    <2>4. CASE ~(Starts(job) \/ q = "empty")
      BY <1>1, <1>2, <1>3, <2>1, <2>4, YieldStep DEF Started, Yield, Advance, Fits
    <2>5. QED
      BY <2>3, <2>4
  <1>4. ASSUME NEW f \in Fields, NEW p \in Phases, job.pc = "running", Shows(f),
               phase' = [phase EXCEPT ![job.thread] = p], UNCHANGED <<drawn, waiting>>,
               p # "empty", q \in Reached => p \in Reached, q \in Behind => p \in Behind,
               f = "leg2" => p \in Behind
        PROVE  IInv'
    <2>1. job' = [job EXCEPT !.pc = "running", !.xray = job.xray \cup {f}]
      BY <1>2, <1>4 DEF Shows, Job
    <2>2. tab' = [tab EXCEPT ![job.tab] =
                     [thread |-> job.thread, mode |-> job.mode, xray |-> job.xray \cup {f}]]
      BY <1>2, <1>4 DEF Shows, Yield, Job
    <2>3. /\ job.mode = "awaiting_user_answer" /\ job.thread # 0 => p \in Reached
          /\ "leg1" \in job.xray \cup {f} => p # "empty"
          /\ "leg2" \in job.xray \cup {f} /\ job.thread # 0 => p \in Behind
      BY <1>2, <1>4 DEF Fits
    <2>4. job.xray \cup {f} \in SUBSET Fields
      BY <1>2, <1>4
    <2>5. QED
      BY <1>1, <1>2, <1>4, <2>1, <2>2, <2>3, <2>4, YieldStep
  <1>5. CASE NodeDone
    <2>1. CASE q = "framing" /\ Shows("leg1")
      BY <1>2, <1>4, <1>5, <2>1 DEF NodeDone, Fields
    <2>2. CASE q = "deciding" /\ Shows("leg2")
      BY <1>2, <1>4, <1>5, <2>2 DEF NodeDone, Fields, Behind, Reached
    <2>3. QED
      BY <1>5, <2>1, <2>2 DEF NodeDone
  <1>6. CASE Parsed
    BY <1>2, <1>4, <1>6 DEF Parsed, Advance, Fields, Phases, Behind, Reached
  <1>7. CASE Stopped
    <2>1. "asked" \in Phases \cap Reached
      BY DEF Phases, Reached
    <2>2. PICK m \in Modes : tab' = [tab EXCEPT ![job.tab] =
                                 [thread |-> job.thread, mode |-> m, xray |-> job.xray]]
      BY <1>7 DEF Stopped, Finish, Yield, Modes
    <2>3. "leg2" \in job.xray => job.thread = 0
      BY <1>2, <1>7 DEF Stopped, Fits, Behind
    <2>4. QED
      BY <1>1, <1>2, <1>7, <2>1, <2>2, <2>3, YieldStep DEF Stopped, Finish, Advance
  <1>8. CASE Decided
    <2>1. "decided" \in Phases \cap Behind /\ "awaiting_submit" \in Modes
      BY DEF Phases, Behind, Modes
    <2>2. QED
      BY <1>1, <1>2, <1>8, <2>1, YieldStep DEF Decided, Finish, Yield, Advance
  <1>9. CASE Failed
    BY <1>1, <1>2, <1>9, YieldStep DEF Failed, Finish, Yield, Fits
  <1>10. QED
    BY <1>3, <1>5, <1>6, <1>7, <1>8, <1>9

\* A reset gives the tab a thread nobody else has, the submission in progress included.
LEMMA InvNewSession ==
    ASSUME IInv, NEW t \in Tabs, on_new_session(t)
    PROVE  IInv'
  <1>1. /\ drawn' = drawn + 1 /\ drawn \in Nat /\ drawn' \in Ids
        /\ phase' = phase /\ waiting' = waiting /\ job' = job
    BY Blanks DEF on_new_session, IInv, TypeOK, Ids
  <1>2. /\ tab'[t] = Fresh(drawn') /\ \A u \in Tabs \ {t} : tab'[u] = tab[u] /\ tab[u] \in Tab
    BY DEF on_new_session, IInv, TypeOK
  <1>3. TypeOK'
    <2>1. tab' \in [Tabs -> Tab]
      BY <1>1, Blanks DEF on_new_session, IInv, TypeOK
    <2>2. QED
      BY <1>1, <2>1 DEF IInv, TypeOK
  <1>4. /\ \A u \in Tabs : tab[u].thread \in Nat /\ tab[u].thread <= drawn
        /\ job.thread \in Nat /\ job.thread <= drawn
    BY Blanks DEF IInv, TypeOK, Fits, Tab, Job
  <1>5. ASSUME NEW u \in Tabs PROVE Fits(tab[u])'
    <2>1. CASE u = t
      BY <2>1, <1>1, <1>2, Blanks DEF Fits
    <2>2. CASE u # t
      BY <2>2, <1>1, <1>2, <1>4 DEF IInv, Fits
    <2>3. QED
      BY <2>1, <2>2
  <1>6. JobInv' /\ Fits(job)'
    BY <1>1, <1>4 DEF IInv, JobInv, Fits
  <1>7. DrawnThreadsArePrivate' /\ JobIsPrivate'
    BY <1>1, <1>2, <1>4, Blanks DEF IInv, DrawnThreadsArePrivate, JobIsPrivate
  <1>8. QED
    BY <1>3, <1>5, <1>6, <1>7 DEF IInv

\* A submission waits, and takes the thread and the mode its tab has when it begins.
LEMMA InvSubmit ==
    ASSUME IInv, NEW t \in Tabs, NEW l \in Listeners, Submit(t, l) \/ BeginSubmit(t, l)
    PROVE  IInv'
  <1>1. tab' = tab /\ drawn' = drawn /\ phase' = phase /\ waiting' \in [Tabs -> SUBSET Listeners]
    BY DEF Submit, BeginSubmit, IInv, TypeOK
  <1>2. CASE Submit(t, l)
    <2>1. job' = job
      BY <1>2 DEF Submit
    <2>2. QED
      BY <1>1, <2>1 DEF IInv, TypeOK, JobInv, Fits, DrawnThreadsArePrivate, JobIsPrivate
  <1>3. CASE BeginSubmit(t, l)
    <2>1. tab[t] \in Tab /\ Fits(tab[t])
      BY DEF IInv, TypeOK
    <2>2. /\ job' \in Job /\ job'.pc = "begun" /\ job'.tab = t /\ job'.xray = {}
          /\ job'.thread = tab[t].thread /\ job'.mode = tab[t].mode
      BY <1>3, <2>1 DEF BeginSubmit, Job, Tab
    <2>3. TypeOK' /\ JobInv'
      BY <1>1, <2>2 DEF IInv, TypeOK, JobInv
    <2>4. Fits(job)' /\ \A u \in Tabs : Fits(tab[u])'
      BY <1>1, <2>1, <2>2 DEF IInv, Fits
    <2>5. DrawnThreadsArePrivate' /\ JobIsPrivate'
      BY <1>1, <2>2 DEF IInv, DrawnThreadsArePrivate, JobIsPrivate
    <2>6. QED
      BY <2>3, <2>4, <2>5 DEF IInv
  <1>4. QED
    BY <1>2, <1>3

LEMMA InvNext == IInv /\ [Next]_vars => IInv'
  <1>1. IInv /\ UNCHANGED vars => IInv'
    BY DEF vars, IInv, TypeOK, JobInv, Fits, DrawnThreadsArePrivate, JobIsPrivate
  <1>2. QED
    BY <1>1, InvNewSession, InvSubmit, InvJob DEF Next

LEMMA Inductive == Spec => []IInv
  BY InvInit, InvNext, PTL DEF Spec

-----------------------------------------------------------------------------
(* The properties. *)

\* The variables of the front end keep their types: the mode of a tab is always one of
\* the two on_submit tests.
THEOREM TypeCorrect == Spec => []TypeOK
  <1>1. IInv => TypeOK
    BY DEF IInv
  <1>2. QED
    BY <1>1, Inductive, PTL

\* A tab takes a text for an answer only where a question has been asked, for any number
\* of tabs, listeners and resets.
THEOREM AnswersHaveQuestions == Spec => []AnswerModeMeansAsked
  <1>1. IInv => AnswerModeMeansAsked
    BY DEF IInv, Fits, AnswerModeMeansAsked, Reached
  <1>2. QED
    BY <1>1, Inductive, PTL

\* Threads drawn by "new session" stay with their tab, though a leg in progress writes its
\* own thread back over a reset.
THEOREM ThreadsArePrivate == Spec => []DrawnThreadsArePrivate
  <1>1. IInv => DrawnThreadsArePrivate
    BY DEF IInv
  <1>2. QED
    BY <1>1, Inductive, PTL

\* The X-Ray pane shows no values of another thread or of an earlier dilemma.
THEOREM PanesAreTrue == Spec => []PaneIsOfItsThread
  <1>1. IInv => PaneIsOfItsThread
    BY DEF IInv, Fits, PaneIsOfItsThread, Behind
  <1>2. QED
    BY <1>1, Inductive, PTL

=============================================================================
