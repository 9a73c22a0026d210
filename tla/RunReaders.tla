----------------------------- MODULE RunReaders -----------------------------
(***************************************************************************)
(* Those who read a run while its agent goes on writing: rebuild_state,    *)
(* which hands the recovery bundle to the soft mirror, to "show" and to    *)
(* recovery tools, and the operator's audit.  Each SELECT is a snapshot of *)
(* its own, so a reader puts its view together from several moments.  Rows *)
(* that no property looks at (texts, messages, the items of the plan) are  *)
(* left out of the view.                                                   *)
(***************************************************************************)
EXTENDS LoggingService

CONSTANT EventLimit    \* event_limit

ASSUME ReadersAssumption == EventLimit \in Nat \ {0}

VARIABLES reader,      \* who reads, if anybody
          reading,     \* what is read next; "done" when the view is complete
          seen         \* what has been read

readerVars == <<reader, reading, seen>>

(* A view before the first read; since is history: the run's latest event  *)
(* when the plan was read, or the ids by the audit.                        *)
Blank ==
  [since |-> 0, checkpoint |-> 0, plan |-> NewPlan, context |-> NewContext, upTo |-> 0,
   version |-> 0, pending |-> {}, plannerVersion |-> 0, ids |-> {},
   results |-> [e \in Exec |-> NoRecord], intents |-> {}]

ReadersInit ==
  /\ Init
  /\ reader = "nobody"
  /\ reading = "done"
  /\ seen = Blank

LatestOrNone == IF NotStarted THEN 0 ELSE LatestSeq

-----------------------------------------------------------------------------
(* The order of the reads                                                  *)

(* The results are listed before the context that refers to them.          *)
BundleOrderResultsFirst ==
  <<"checkpoint", "events", "plan", "ids", "results", "context", "done">>

BundleOrder == <<"checkpoint", "events", "plan", "context", "ids", "results", "done">>

(* The pending ids are listed before the records.                          *)
AuditOrderPendingFirst ==
  <<"context", "ids", "results", "intents", "done">>

AuditOrder == <<"ids", "results", "context", "intents", "done">>

Order == IF reader = "bundle" THEN BundleOrder ELSE AuditOrder

Proceeds ==
  /\ reading' = Order[1 + CHOOSE k \in DOMAIN Order : Order[k] = reading]
  /\ UNCHANGED <<reader, vars>>

StartReading ==
  /\ reader = "nobody"
  /\ \/ reader' = "bundle" /\ reading' = BundleOrder[1]
     \/ reader' = "audit" /\ reading' = AuditOrder[1]
  /\ UNCHANGED <<seen, vars>>

StopReading ==
  /\ reader # "nobody" /\ reading = "done"
  /\ reader' = "nobody"
  /\ seen' = Blank
  /\ UNCHANGED <<reading, vars>>

-----------------------------------------------------------------------------
(* The reads                                                               *)

ReadCheckpoint ==
  /\ reading = "checkpoint"
  /\ seen' = [seen EXCEPT !.checkpoint = checkpoint.seq, !.plan = checkpoint.plan,
                          !.context = checkpoint.context]
  /\ Proceeds

(* How many entries of a log, which is in the order of the sequence ids,   *)
(* are not past one of them.                                               *)
CountUpTo(entries, seq) ==
  CHOOSE n \in 0 .. Len(entries) : \A k \in DOMAIN entries : entries[k].seq <= seq <=> k <= n

(* The event of the checkpoint itself is read once more.                   *)
AfterInclusive(seq) == SubSeq(log, CountUpTo(log, seq - 1) + 1, Len(log))

After(seq) == SubSeq(log, CountUpTo(log, seq) + 1, Len(log))

FirstOf(entries) == SubSeq(entries, 1, IF Len(entries) < EventLimit THEN Len(entries)
                                       ELSE EventLimit)

(* The log only grows, so the view names its last event.                   *)
ReadEvents ==
  /\ reading = "events"
  /\ LET events == FirstOf(After(seen.checkpoint))
     IN  seen' = [seen EXCEPT !.upTo = IF events = << >> THEN seen.checkpoint
                                       ELSE events[Len(events)].seq]
  /\ Proceeds

ReadPlan ==
  /\ reading = "plan"
  /\ seen' = [seen EXCEPT !.version = IF NotStarted THEN 0 ELSE plan.version,
                          !.since = LatestOrNone]
  /\ Proceeds

(* A bundle without a context goes without results.                        *)
ReadContext ==
  /\ reading = "context"
  /\ seen' = [seen EXCEPT !.pending = context.pending,
                          !.plannerVersion = context.plannerVersion]
  /\ \/ NotStarted /\ reader = "bundle" /\ reading' = "done" /\ UNCHANGED <<reader, vars>>
     \/ (~NotStarted \/ reader = "audit") /\ Proceeds

ListIds ==
  /\ reading = "ids"
  /\ seen' = [seen EXCEPT !.ids = {e \in Exec : records[e] # NoRecord},
                          !.since = IF reader = "audit" THEN LatestOrNone ELSE @]
  /\ Proceeds

(* The listed records are loaded one by one.                               *)
ReadResult ==
  /\ reading = "results" /\ seen.ids # {}
  /\ \E e \in seen.ids :
        seen' = [seen EXCEPT !.ids = @ \ {e}, !.results[e] = records[e]]
  /\ UNCHANGED <<reader, reading, vars>>

ResultsRead ==
  /\ reading = "results" /\ seen.ids = {}
  /\ UNCHANGED seen
  /\ Proceeds

ReadIntents ==
  /\ reading = "intents"
  /\ seen' = [seen EXCEPT !.intents = {e \in Exec : IntentLogged(e)}]
  /\ Proceeds

Read ==
  \/ ReadCheckpoint \/ ReadEvents \/ ReadPlan \/ ReadContext \/ ListIds \/ ReadResult
  \/ ResultsRead \/ ReadIntents

(* A reader that has its view leaves before the run goes on; what other    *)
(* runs append is left out while somebody reads, for nobody reads it.      *)
WriteMeanwhile ==
  /\ reading # "done"
  /\ NextOfRun
  /\ UNCHANGED readerVars

ReadersNext ==
  \/ StartReading \/ Read \/ StopReading
  \/ WriteMeanwhile
  \/ reader = "nobody" /\ Next /\ UNCHANGED readerVars

ReadersSpec == ReadersInit /\ [][ReadersNext]_<<vars, readerVars>>

-----------------------------------------------------------------------------
(* Properties                                                              *)

HasRead(who) == reader = who /\ reading = "done"

UpTo(entries, seq) == SubSeq(entries, 1, CountUpTo(entries, seq))

(* The run as its log tells it up to an event.                             *)
AsOf(seq) ==
  ToldBy(UpTo(log, seq), 0,
         [plan |-> NewPlan, context |-> NewContext, records |-> [e \in Exec |-> NoRecord]])

(* The events handed out, replayed on the checkpoint that was read before  *)
(* them, give the plan and the context as they were after the last of the  *)
(* events, whatever has been written meanwhile and wherever the limit cut. *)
BundleReplays ==
  HasRead("bundle") /\ seen.checkpoint > 0 =>
    LET told == ToldBy(UpTo(After(seen.checkpoint), seen.upTo), 0,
                       [plan |-> seen.plan, context |-> seen.context,
                        records |-> AsOf(seen.checkpoint).records])
    IN  told = AsOf(seen.upTo)

ResetSince(seq) ==
  \E k \in DOMAIN log : log[k].seq > seq /\ log[k].event.type = "RUN_STARTED"

(* No part of the bundle refers to what a later part does not have yet:    *)
(* the results know every execution of the events and every pending one,   *)
(* and have not fallen behind a commit the events tell of; unless the run  *)
(* is reset meanwhile, the context has seen the plan that was read.        *)
BundleLooksForward ==
  HasRead("bundle") =>
    LET told == AsOf(seen.upTo).records
    IN  /\ \A e \in Exec : told[e] # NoRecord \/ e \in seen.pending
                             => seen.results[e] # NoRecord
        /\ \A e \in Exec : told[e] \in Committed => seen.results[e] \in Committed
        /\ seen.plannerVersion >= seen.version \/ ResetSince(seen.since)

Blamed ==
  {e \in seen.pending : seen.results[e] \in Terminal \union {NoRecord}}
    \union {e \in seen.intents : seen.results[e] = NoRecord}

(* What the audit blames in a run that is being written to, it blames only *)
(* for want of a record, and only executions that were begun after it had  *)
(* started.                                                                *)
AuditBlamesOnlyNewcomers ==
  HasRead("audit") =>
    \A e \in Blamed :
       /\ seen.results[e] = NoRecord
       /\ \E k \in DOMAIN log : /\ log[k].seq > seen.since
                                /\ log[k].event.type = "TOOL_INTENT_RECORDED"
                                /\ log[k].event.entity = e
=============================================================================
