---------------------------- MODULE BrainstormUI ----------------------------
(***************************************************************************)
(* The Gradio front end (src/ui): browser tabs with their hidden state,    *)
(* on_submit streaming the events of one leg into it, and on_new_session   *)
(* resetting it at any moment.                                             *)
(*                                                                         *)
(* Gradio runs one on_submit at a time over all tabs (its default          *)
(* concurrency limit) and queues the others; each listener, the button and *)
(* the Enter key, can have one submission waiting, and thread_id and mode  *)
(* are read when it begins.                                                *)
(***************************************************************************)
EXTENDS Naturals

CONSTANTS Tabs, Listeners,
          NoTab,       \* stands for no tab
          MaxThreads   \* bound: uuids drawn by "new session"

ASSUME UIAssumption == NoTab \notin Tabs /\ MaxThreads \in Nat

VARIABLES tab,       \* the gr.State of each tab, thread_id and mode, and its X-Ray pane
          drawn,     \* how many uuids "new session" has drawn
          phase,     \* how far the checkpoint of each thread_id is
          waiting,   \* the listeners of each tab with a submission queued
          job        \* the on_submit in progress

vars == <<tab, drawn, phase, waiting, job>>

Ids == 0 .. MaxThreads   \* 0 is drawn once, by build_ui, for all tabs
Modes == {"awaiting_submit", "awaiting_user_answer"}
Phases == {"empty", "framing", "asked", "deciding", "decided"}
Fields == {"leg1", "leg2"}   \* what the nodes of each leg add to the pane

Tab == [thread : Ids, mode : Modes, xray : SUBSET Fields]
Fresh(i) == [thread |-> i, mode |-> "awaiting_submit", xray |-> {}]

Job == [pc : {"idle", "begun", "running"}, tab : Tabs \cup {NoTab}, via : Listeners \cup {NoTab},
        thread : Ids, mode : Modes, xray : SUBSET Fields]
NoJob == [pc |-> "idle", tab |-> NoTab, via |-> NoTab,
          thread |-> 0, mode |-> "awaiting_submit", xray |-> {}]

Init ==
    /\ tab = [t \in Tabs |-> Fresh(0)]
    /\ drawn = 0
    /\ phase = [i \in Ids |-> "empty"]
    /\ waiting = [t \in Tabs |-> {}]
    /\ job = NoJob

Starts(j) == j.mode = "awaiting_submit"

-----------------------------------------------------------------------------
(* The user. *)

\* Nothing locks the textbox; a listener ignores clicks while its own is pending.
Submit(t, l) ==
    /\ l \notin waiting[t]
    /\ ~(job.tab = t /\ job.via = l)
    /\ waiting' = [waiting EXCEPT ![t] = @ \cup {l}]
    /\ UNCHANGED <<tab, drawn, phase, job>>

\* Mutant: the id is drawn when the handler is defined, not when it is called.
MutNewSession(t) ==
    /\ drawn < MaxThreads
    /\ drawn' = drawn + 1
    /\ tab' = [tab EXCEPT ![t] = Fresh(1)]
    /\ UNCHANGED <<phase, waiting, job>>

\* Mutant: the pane is not among the outputs.
MutNewSessionKeepsPane(t) ==
    /\ drawn < MaxThreads
    /\ drawn' = drawn + 1
    /\ tab' = [tab EXCEPT ![t] = [Fresh(drawn') EXCEPT !.xray = tab[t].xray]]
    /\ UNCHANGED <<phase, waiting, job>>

\* A leg in progress is not cancelled.
on_new_session(t) ==
    /\ drawn < MaxThreads
    /\ drawn' = drawn + 1
    /\ tab' = [tab EXCEPT ![t] = Fresh(drawn')]
    /\ UNCHANGED <<phase, waiting, job>>

-----------------------------------------------------------------------------
(* on_submit and the generators under it. *)

\* The pane is an output of on_submit and its input state_snapshot is not: every
\* submission starts from the empty snapshot.
BeginSubmit(t, l) ==
    /\ job.pc = "idle"
    /\ l \in waiting[t]
    /\ job' = [pc |-> "begun", tab |-> t, via |-> l,
               thread |-> tab[t].thread, mode |-> tab[t].mode, xray |-> {}]
    /\ waiting' = [waiting EXCEPT ![t] = @ \ {l}]
    /\ UNCHANGED <<tab, drawn, phase>>

\* One yield of on_submit: all outputs are written, whatever changed in between.
Yield(j, mode) ==
    tab' = [tab EXCEPT ![j.tab] = [thread |-> j.thread, mode |-> mode, xray |-> j.xray]]

Advance(p) == phase' = [phase EXCEPT ![job.thread] = p]

\* session_started or resume_started, then the leg reaches the store: a new
\* dilemma restarts the thread from any phase.
Started ==
    /\ job.pc = "begun"
    /\ Yield(job, job.mode)
    /\ job' = [job EXCEPT !.pc = "running"]
    /\ Advance(IF Starts(job) \/ phase[job.thread] = "empty" THEN "framing"
               ELSE phase[job.thread])
    /\ UNCHANGED <<drawn, waiting>>

\* node_completed and state_snapshot, for a node whose values belong to `field'.
Shows(field) ==
    LET j == [job EXCEPT !.xray = @ \cup {field}]
    IN Yield(j, j.mode) /\ job' = j

\* A node inside a phase.
NodeDone ==
    /\ job.pc = "running"
    /\ \/ phase[job.thread] = "framing" /\ Shows("leg1")
       \/ phase[job.thread] = "deciding" /\ Shows("leg2")
    /\ UNCHANGED <<drawn, phase, waiting>>

\* Node 3.5 has parsed the answer.
Parsed ==
    /\ job.pc = "running" /\ ~Starts(job)
    /\ phase[job.thread] = "asked"
    /\ Advance("deciding")
    /\ Shows("leg2")
    /\ UNCHANGED <<drawn, waiting>>

Finish(mode) == Yield(job, mode) /\ job' = NoJob

\* Mutant: the form switches to the answer before the checkpoint is written.
MutStopped ==
    /\ job.pc = "running"
    /\ phase[job.thread] = "framing"
    /\ Finish(IF Starts(job) THEN "awaiting_user_answer" ELSE "awaiting_submit")
    /\ UNCHANGED <<drawn, waiting, phase>>

\* Node 3 asks and the interrupt ends the stream: awaiting_user on leg 1.  A
\* resume that finds the thread before its question, which takes a second tab on
\* the thread, reports final_answer.
Stopped ==
    /\ job.pc = "running"
    /\ phase[job.thread] = "framing"
    /\ Advance("asked")
    /\ Finish(IF Starts(job) THEN "awaiting_user_answer" ELSE "awaiting_submit")
    /\ UNCHANGED <<drawn, waiting>>

\* The graph reaches END, or was there already.
Decided ==
    /\ job.pc = "running"
    /\ phase[job.thread] \in {"deciding", "decided"}
    /\ Advance("decided")
    /\ Finish("awaiting_submit")
    /\ UNCHANGED <<drawn, waiting>>

\* The store or a node raises: the error event and on_submit's own error message
\* keep the mode.
Failed ==
    /\ job.pc # "idle"
    /\ Finish(job.mode)
    /\ UNCHANGED <<drawn, phase, waiting>>

-----------------------------------------------------------------------------

Next ==
    \/ \E t \in Tabs : on_new_session(t)
    \/ \E t \in Tabs, l \in Listeners : Submit(t, l) \/ BeginSubmit(t, l)
    \/ Started \/ NodeDone \/ Parsed \/ Stopped \/ Decided \/ Failed

Spec == Init /\ [][Next]_vars

-----------------------------------------------------------------------------
(* Properties.  Thread 0 is every tab's first thread; they are about the       *)
(* others, which "new session" draws.                                          *)

\* Every variable has its type; the mode is one of the two on_submit tests.
TypeOK ==
    /\ tab \in [Tabs -> Tab]
    /\ drawn \in Ids
    /\ phase \in [Ids -> Phases]
    /\ waiting \in [Tabs -> SUBSET Listeners]
    /\ job \in Job

\* A tab that takes the next text for an answer is on a thread whose question
\* has been asked, however submissions, resets and failures interleave and
\* though the yields of a leg overwrite a reset: this is what lets
\* stream_resume_session be called without a check.
AnswerModeMeansAsked ==
    \A t \in Tabs :
        tab[t].mode = "awaiting_user_answer" /\ tab[t].thread # 0
            => phase[tab[t].thread] \in {"asked", "deciding", "decided"}

\* A thread_id drawn by "new session" is never used by another tab.
DrawnThreadsArePrivate ==
    \A t, u \in Tabs : t # u /\ tab[t].thread = tab[u].thread => tab[t].thread = 0

\* The pane never shows values the tab's thread does not hold: not those of the
\* thread before a reset, nor those of the dilemma before.
PaneIsOfItsThread ==
    \A t \in Tabs :
        /\ "leg1" \in tab[t].xray => phase[tab[t].thread] # "empty"
        /\ "leg2" \in tab[t].xray /\ tab[t].thread # 0
               => phase[tab[t].thread] \in {"deciding", "decided"}

=============================================================================
