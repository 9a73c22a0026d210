---------------------------- MODULE TargetStore ----------------------------
(***************************************************************************)
(* The mock target's store: every call loads one JSON file, changes the    *)
(* copy and saves it through a temporary file of fixed name that replaces  *)
(* the store.  Several processes (one per command, one per MCP server) may *)
(* use one store, and may be killed between any two steps.  ToolTarget     *)
(* takes such a call as one atomic Apply.                                  *)
(***************************************************************************)
EXTENDS Naturals, FiniteSets, Functions

CONSTANTS
  Clients,     \* processes that use the store
  Requests,    \* what they may ask for: one method with one payload
  Kind,        \* [Requests -> Kinds]: the method
  Ids, Id,     \* [Requests -> Ids or NoId]: the execution id it is given
  NoId,        \* none: the service makes one up
  Action,      \* [domain and object writes -> Actions]: action_name
  Value,       \* what a set_value stores under the key
  NoValue,     \* the key is not there
  Deleted,     \* an object that was deleted
  Missing, Empty, Torn, \* a file that is not there, truncated, or does not parse
  Seams,       \* where texts that two saves write at once may be joined
  MaxCalls, MaxCrashes,
  MaxTexts     \* with as many texts joined, calls start one at a time

(* apply_action in IDEMPOTENT mode is the idempotent method.               *)
Kinds == {"legacy", "idempotent", "rifl", "distinguishable", "counter"}

Deduping == {"idempotent", "rifl"}

(* "other" stands for every name without a meaning of its own.             *)
Actions == {"set_value", "delete_value", "increment_value", "other"}

DomainWrites == {r \in Requests : Kind[r] \in {"legacy"} \union Deduping}
Objects == {r \in Requests : Kind[r] = "distinguishable"}

ASSUME RequestsAssumption ==
  /\ IsFiniteSet(Clients)
  /\ IsFiniteSet(Requests) /\ Requests # {}
  /\ "nobody" \notin Requests
  /\ Kind \in [Requests -> Kinds]
  /\ Id \in [Requests -> Ids \union {NoId}]
  /\ NoId \notin Ids
  /\ \A r \in Requests : Kind[r] \in Deduping => Id[r] # NoId
  /\ \A r \in Requests : Kind[r] \in {"distinguishable", "counter"} => Id[r] = NoId
  /\ Action \in [DomainWrites \union Objects -> Actions]
  /\ \A r \in Objects : Action[r] \in {"set_value", "delete_value"}
  /\ DOMAIN Value = {r \in DomainWrites \union Objects : Action[r] = "set_value"}
  /\ \A r \in DOMAIN Value : Value[r] \notin Nat \union {NoValue, Deleted}
  /\ Seams \subseteq 1..6
  /\ MaxCalls \in Nat /\ MaxCrashes \in Nat

VARIABLES
  file,       \* content of the store
  tmp,        \* content of the temporary file
  pc, req,    \* per client: where its call is, and for what
  data,       \* per client: its copy of the store
  handle,     \* per client: the file its open handle points to by now
  call,       \* per client: the number of its call
  overlapped, \* clients that have not had the store to themselves (history)
  calls,      \* calls begun
  answers,    \* answers given (history)
  crashes,
  texts       \* documents written to a file another client had open, too

fileVars == <<file, tmp, texts>>
vars == <<file, tmp, pc, req, data, handle, call, overlapped, calls, answers, crashes, texts>>

-----------------------------------------------------------------------------
(* The document                                                            *)

NoEntry == [by |-> "nobody", receipt |-> 0]
NoEntries == [i \in Ids |-> NoEntry]

Entries == {NoEntry} \union [by : Requests, receipt : 1..MaxCalls]

Stats == {"total", "idempotent", "rifl", "distinguishable", "counter"}

SetWrites == {r \in DomainWrites : Action[r] = "set_value"}

(* The domain key may also hold a number, by which increments went.        *)
Stores ==
  [ commits   : [Requests -> Nat],   \* effects held by domain, history and counters
    domain    : {NoValue} \union {Value[r] : r \in SetWrites} \union 1..MaxCalls,
    appended  : Nat,                 \* entries of _applied_actions
    entity    : {NoValue, Deleted} \union {Value[r] : r \in Objects \intersect DOMAIN Value},
    attempts  : [Ids -> Nat],        \* action log: attempts under an execution id
    anonymous : Nat,                 \* action log: entries under ids of the service's own
    requests  : [Deduping -> [Ids -> Entries]],
    stats     : [Stats -> Nat] ]

(* The markers are told from each other and from documents.                *)
ASSUME FilesAssumption ==
  /\ Cardinality({Missing, Empty, Torn}) = 3
  /\ \A content \in {Missing, Empty, Torn} : content \notin Stores

NewStore ==
  [ commits   |-> [r \in Requests |-> 0],
    domain    |-> NoValue,
    appended  |-> 0,
    entity    |-> NoValue,
    attempts  |-> [i \in Ids |-> 0],
    anonymous |-> 0,
    requests  |-> [k \in Deduping |-> NoEntries],
    stats     |-> [s \in Stats |-> 0] ]

Readable == file \notin {Empty, Torn}
Content == IF file \in {Missing, Empty, Torn} THEN NewStore ELSE file

StoreTypeOK ==
  /\ file \in Stores \union {Missing, Empty, Torn}
  /\ tmp \in Stores \union {Missing, Empty, Torn}
  /\ pc \in [Clients -> {"idle", "load", "open", "write", "replace"}]
  /\ req \in [Clients -> Requests]
  /\ data \in [Clients -> Stores]
  /\ handle \in [Clients -> {"none", "tmp", "file", "unlinked"}]
  /\ call \in [Clients -> 0..MaxCalls]
  /\ overlapped \subseteq Clients
  /\ calls \in 0..MaxCalls
  /\ answers \subseteq [req : Requests, receipt : 1..MaxCalls, alone : BOOLEAN]
  /\ crashes \in 0..MaxCrashes
  /\ texts \subseteq Stores

AnyRequest == CHOOSE r \in Requests : TRUE

StoreInit ==
  /\ file = Missing /\ tmp = Missing
  /\ pc = [c \in Clients |-> "idle"]
  /\ req = [c \in Clients |-> AnyRequest]
  /\ data = [c \in Clients |-> NewStore]
  /\ handle = [c \in Clients |-> "none"]
  /\ call = [c \in Clients |-> 0]
  /\ overlapped = {}
  /\ calls = 0 /\ answers = {} /\ crashes = 0 /\ texts = {}

-----------------------------------------------------------------------------
(* What a request does to the copy                                         *)

(* Counted under its method only.                                          *)
CountedOnce(d, r) ==
  IF Kind[r] = "legacy" THEN [d EXCEPT !.stats["total"] = @ + 1]
  ELSE [d EXCEPT !.stats[Kind[r]] = @ + 1]

(* _increment_stat: the legacy method has no counter of its own.           *)
Counted(d, r) ==
  IF Kind[r] = "legacy" THEN [d EXCEPT !.stats["total"] = @ + 1]
  ELSE [d EXCEPT !.stats["total"] = @ + 1, !.stats[Kind[r]] = @ + 1]

(* A value that is no number is not incremented: the call ends with an     *)
(* exception.                                                              *)
Refused(d, r) ==
  /\ r \in DomainWrites /\ Action[r] = "increment_value"
  /\ d.domain \notin Nat \union {NoValue}

Effective(d, r) == [d EXCEPT !.commits[r] = @ + 1]

InDomain(d, r) ==
  CASE Action[r] = "set_value"       -> [Effective(d, r) EXCEPT !.domain = Value[r]]
    [] Action[r] = "delete_value"    -> [Effective(d, r) EXCEPT !.domain = NoValue]
    [] Action[r] = "increment_value" ->
         [Effective(d, r) EXCEPT !.domain = IF @ = NoValue THEN 1 ELSE @ + 1]
    [] Action[r] = "other"           -> [Effective(d, r) EXCEPT !.appended = @ + 1]

(* Deleting an object leaves a tombstone.                                  *)
InObjects(d, r) ==
  [Effective(d, r) EXCEPT !.entity = IF Action[r] = "delete_value" THEN Deleted ELSE Value[r]]

Anonymous(d) == [d EXCEPT !.anonymous = @ + 1]

ApplyLegacy(d, r) ==
  IF Id[r] = NoId THEN Anonymous(InDomain(d, r))
  ELSE [InDomain(d, r) EXCEPT !.attempts[Id[r]] = @ + 1]

(* The idempotent and the RIFL method, each with requests of its own; the  *)
(* action log is shared.                                                   *)
ApplyDeduped(d, r, receipt) ==
  [InDomain(d, r) EXCEPT !.requests[Kind[r]][Id[r]] = [by |-> r, receipt |-> receipt],
                         !.attempts[Id[r]] = 1]

ApplyDistinguishable(d, r) == Anonymous(InObjects(d, r))

IncrementCounter(d, r) == Anonymous(Effective(d, r))

Applied(d, r, receipt) ==
  Counted(CASE Kind[r] = "legacy"          -> ApplyLegacy(d, r)
            [] Kind[r] \in Deduping        -> ApplyDeduped(d, r, receipt)
            [] Kind[r] = "distinguishable" -> ApplyDistinguishable(d, r)
            [] Kind[r] = "counter"         -> IncrementCounter(d, r),
          r)

(* Requests are never looked up.                                           *)
RecordedNowhere(d, r) == NoEntry

(* The record an earlier call left under the same id of the same method.   *)
Recorded(d, r) ==
  IF Kind[r] \in Deduping THEN d.requests[Kind[r]][Id[r]] ELSE NoEntry

-----------------------------------------------------------------------------
(* A call                                                                  *)

Busy == {c \in Clients : pc[c] # "idle"}

Start(c, r) ==
  /\ pc[c] = "idle" /\ calls < MaxCalls
  /\ Cardinality(texts) < MaxTexts \/ Busy = {}
  /\ pc' = [pc EXCEPT ![c] = "load"]
  /\ req' = [req EXCEPT ![c] = r]
  /\ calls' = calls + 1
  /\ call' = [call EXCEPT ![c] = calls + 1]
  /\ overlapped' = IF Busy = {} THEN overlapped ELSE overlapped \union Busy \union {c}
  /\ UNCHANGED <<fileVars, data, handle, answers, crashes>>

(* The client is done with the store: what it held is gone.                *)
Leave(c) ==
  /\ pc' = [pc EXCEPT ![c] = "idle"]
  /\ req' = [req EXCEPT ![c] = AnyRequest]
  /\ data' = [data EXCEPT ![c] = NewStore]
  /\ call' = [call EXCEPT ![c] = 0]
  /\ overlapped' = overlapped \ {c}

Answer(c, receipt) ==
  /\ Leave(c)
  /\ answers' = answers \union {[req |-> req[c], receipt |-> receipt, alone |-> c \notin overlapped]}

Save(c, d) ==
  /\ pc' = [pc EXCEPT ![c] = "open"]
  /\ data' = [data EXCEPT ![c] = d]
  /\ UNCHANGED <<req, call, overlapped, answers>>

(* load creates the store first when there is none.                        *)
Create(c) ==
  /\ pc[c] = "load" /\ file = Missing
  /\ Save(c, NewStore)
  /\ UNCHANGED <<fileVars, handle, calls, crashes>>

(* The file does not parse.                                                *)
Unreadable(c) ==
  /\ pc[c] = "load" /\ ~Readable
  /\ Leave(c)
  /\ UNCHANGED <<fileVars, handle, calls, answers, crashes>>

(* The retry gets a receipt of its own.                                    *)
HitWithNewReceipt(c) ==
  /\ pc[c] = "load" /\ Readable /\ file # Missing
  /\ Recorded(file, req[c]) # NoEntry
  /\ Answer(c, call[c])
  /\ UNCHANGED <<fileVars, handle, calls, crashes>>

(* A call is answered from the record without asking whether there is one. *)
HitUnasked(c) ==
  /\ pc[c] = "load" /\ Readable /\ file # Missing
  /\ Answer(c, Recorded(file, req[c]).receipt)
  /\ UNCHANGED <<fileVars, handle, calls, crashes>>

(* The id was used before: with another payload the call is refused, with  *)
(* the same it gets the original receipt.                                  *)
Hit(c) ==
  /\ pc[c] = "load" /\ Readable /\ file # Missing
  /\ Recorded(file, req[c]) # NoEntry
  /\ IF Recorded(file, req[c]).by = req[c]
     THEN Answer(c, Recorded(file, req[c]).receipt)
     ELSE Leave(c) /\ UNCHANGED answers
  /\ UNCHANGED <<fileVars, handle, calls, crashes>>

Change(c) ==
  /\ pc[c] = "load" /\ Readable /\ file # Missing
  /\ Recorded(file, req[c]) = NoEntry /\ ~Refused(file, req[c])
  /\ Save(c, Applied(file, req[c], call[c]))
  /\ UNCHANGED <<fileVars, handle, calls, crashes>>

(* The exception comes before the save: the id is not on record, and the   *)
(* same request may be made again.                                         *)
Refuse(c) ==
  /\ pc[c] = "load" /\ Readable /\ file # Missing
  /\ Recorded(file, req[c]) = NoEntry /\ Refused(file, req[c])
  /\ Leave(c)
  /\ UNCHANGED <<fileVars, handle, calls, answers, crashes>>

-----------------------------------------------------------------------------
(* _atomic_write                                                           *)

(* Without the temporary file.                                             *)
OpenInPlace(c) ==
  /\ pc[c] = "open"
  /\ pc' = [pc EXCEPT ![c] = "write"]
  /\ file' = Empty
  /\ handle' = [handle EXCEPT ![c] = "file"]
  /\ UNCHANGED <<tmp, req, data, call, overlapped, calls, answers, crashes, texts>>

(* Opening creates or truncates; a file another client has open is shared. *)
Open(c) ==
  /\ pc[c] = "open"
  /\ pc' = [pc EXCEPT ![c] = "write"]
  /\ tmp' = Empty
  /\ handle' = [handle EXCEPT ![c] = "tmp"]
  /\ UNCHANGED <<file, req, data, call, overlapped, calls, answers, crashes, texts>>

(* What is in the file the handle points to.                               *)
Behind(c) ==
  CASE handle[c] = "tmp"  -> tmp
    [] handle[c] = "file" -> file
    [] OTHER              -> Empty

(* Another client has the file open, or has written to it since c opened   *)
(* and truncated it.                                                       *)
Shared(c) ==
  \/ Behind(c) # Empty
  \/ handle[c] \in {"tmp", "file"} /\ \E o \in Clients \ {c} : handle[o] = handle[c]

(* Longer text goes out in blocks, and saves that write at once lay theirs *)
(* over each other's.  Text a up to some point and text b from there can   *)
(* be read if they fit: the first n maps (in the order of the keys: action *)
(* log, counters, objects, domain, idempotent and RIFL requests, stats)    *)
(* are then a's, the others b's, and entries may be lost where they join.  *)
Map(m, a, b, n) == IF m <= n THEN a ELSE b

EffectMap(r) == CASE Kind[r] = "counter" -> 2 [] Kind[r] = "distinguishable" -> 3 [] OTHER -> 4

RequestMap(k) == IF k = "idempotent" THEN 5 ELSE 6

Spliced(a, b, n, lost) ==
  [ commits   |-> [r \in Requests |-> Map(EffectMap(r), a, b, n).commits[r]],
    domain    |-> Map(4, a, b, n).domain,
    appended  |-> Map(4, a, b, n).appended,
    entity    |-> Map(3, a, b, n).entity,
    attempts  |-> [i \in Ids |-> IF n = 1 /\ i \in lost THEN 0 ELSE Map(1, a, b, n).attempts[i]],
    anonymous |-> Map(1, a, b, n).anonymous,
    requests  |-> [k \in Deduping |-> [i \in Ids |->
                     IF n = RequestMap(k) /\ i \in lost THEN NoEntry
                     ELSE Map(RequestMap(k), a, b, n).requests[k][i]]],
    stats     |-> Map(7, a, b, n).stats ]

Mixtures(D) == {Spliced(a, b, n, lost) : a \in D, b \in D, n \in Seams, lost \in SUBSET Ids}

(* Text of which not all is there, or not all is the client's: it does not *)
(* parse, or joins texts that were written at once (any of them: what is   *)
(* left of which in what file is not followed).                            *)
Blends(c) ==
  {Torn} \union IF Shared(c) THEN Mixtures(texts \union {data[c]}) ELSE {}

(* Text reaches the file the handle points to.                             *)
Put(c, text) ==
  /\ tmp' = IF handle[c] = "tmp" THEN text ELSE tmp
  /\ file' = IF handle[c] = "file" THEN text ELSE file
  /\ texts' = IF Shared(c) THEN texts \union {data[c]} ELSE texts

(* Some blocks of the text are written before the rest.  (Once is enough:  *)
(* more blocks of known texts leave no other blends.  A file nobody else   *)
(* has open is as unreadable with some blocks as empty.)                   *)
Flush(c) ==
  /\ pc[c] = "write" /\ Shared(c) /\ data[c] \notin texts
  /\ \E text \in Blends(c) : Put(c, text)
  /\ UNCHANGED <<pc, req, data, handle, call, overlapped, calls, answers, crashes>>

(* The rest is written and the file closed.                                *)
Write(c) ==
  /\ pc[c] = "write"
  /\ \/ Put(c, data[c])
     \/ Shared(c) /\ \E text \in Blends(c) : Put(c, text)
  /\ pc' = [pc EXCEPT ![c] = "replace"]
  /\ handle' = [handle EXCEPT ![c] = "none"]
  /\ UNCHANGED <<req, data, call, overlapped, calls, answers, crashes>>

(* Handles follow the file they opened, not its name.                      *)
Renamed ==
  [c \in Clients |-> CASE handle[c] = "tmp"  -> "file"
                       [] handle[c] = "file" -> "unlinked"
                       [] OTHER              -> handle[c]]

(* The rename; after creating the store the call goes on to load it.       *)
Replace(c) ==
  /\ pc[c] = "replace" /\ tmp # Missing
  /\ file' = tmp
  /\ tmp' = Missing
  /\ handle' = Renamed
  /\ IF data[c] = NewStore
     THEN /\ pc' = [pc EXCEPT ![c] = "load"]
          /\ UNCHANGED <<req, data, call, overlapped, answers>>
     ELSE Answer(c, call[c])
  /\ UNCHANGED <<calls, crashes, texts>>

(* Another client has renamed the temporary file away.                     *)
ReplaceFails(c) ==
  /\ pc[c] = "replace" /\ tmp = Missing
  /\ Leave(c)
  /\ UNCHANGED <<fileVars, handle, calls, answers, crashes>>

(* The process is killed, possibly with part of its text written.          *)
Crash(c) ==
  /\ pc[c] # "idle" /\ crashes < MaxCrashes
  /\ crashes' = crashes + 1
  /\ Leave(c)
  /\ handle' = [handle EXCEPT ![c] = "none"]
  /\ \/ UNCHANGED fileVars
     \/ pc[c] = "write" /\ Put(c, Torn)
  /\ UNCHANGED <<calls, answers>>

ClientStep(c) ==
  \/ Create(c) \/ Unreadable(c) \/ Hit(c) \/ Change(c) \/ Refuse(c)
  \/ Open(c) \/ Flush(c) \/ Write(c) \/ Replace(c) \/ ReplaceFails(c)

StoreNext ==
  \E c \in Clients : (\E r \in Requests : Start(c, r)) \/ ClientStep(c) \/ Crash(c)

StoreSpec == StoreInit /\ [][StoreNext]_vars

-----------------------------------------------------------------------------
(* Properties                                                              *)

Effects(d, R) == SumFunctionOnSet(d.commits, R)
OfKind(k) == {r \in Requests : Kind[r] = k}
OfAction(a) == {r \in DomainWrites : Action[r] = a}

(* As long as no save has written to a file that another had open: a store *)
(* that can be read is whole, however calls overlap and processes are      *)
(* killed.  Its counters agree with the effects it holds, a request of a   *)
(* deduplicating method has taken effect once if it is on record and not   *)
(* at all if it is not, what took effect under an id is in the action log, *)
(* and the value under the key is one that was set or a number no greater  *)
(* than the increments.  (A save renames away text that others have still  *)
(* to write, and a call changes a copy others have replaced since.)        *)
WholeSnapshots ==
  texts = {} =>
    /\ Content.stats["total"] = Effects(Content, Requests)
    /\ \A k \in Kinds \ {"legacy"} : Content.stats[k] = Effects(Content, OfKind(k))
    /\ Content.anonymous = Effects(Content, {r \in Requests : Id[r] = NoId})
    /\ \A r \in Requests :
         /\ Kind[r] \in Deduping =>
              Content.commits[r] = IF Recorded(Content, r).by = r THEN 1 ELSE 0
         /\ Content.commits[r] > 0 /\ Id[r] # NoId => Content.attempts[Id[r]] > 0
    /\ \/ Content.domain = NoValue
       \/ \E r \in SetWrites : Value[r] = Content.domain /\ Content.commits[r] > 0
       \/ Content.domain \in 1..Effects(Content, OfAction("increment_value"))
    /\ Content.appended = Effects(Content, OfAction("other"))

(* As long as no save has written to a file that another had open: a call  *)
(* that had the store to itself and was answered is in the store whenever  *)
(* the store can be read, with the receipt it was given if its method      *)
(* dedupes; no later call, overlapping or killed, takes it back.           *)
AnswersStand ==
  texts = {} /\ Readable => \A a \in answers : a.alone =>
    /\ Content.commits[a.req] > 0
    /\ Kind[a.req] \in Deduping => Recorded(Content, a.req).receipt = a.receipt

(* No call is under way that has overlapped another.                       *)
Quiet == overlapped = {}

(* Without overlap, killing a process at any point of its save leaves a    *)
(* store that can be read.                                                 *)
QuietStepsKeepTheStore == [][Quiet /\ Readable => Readable']_vars

(* ToolTarget knows writes that set a value: they are seen in the store    *)
(* once with the ids that dedupe and once with every id.                   *)
SetEffects == [r \in Requests |-> IF r \in SetWrites THEN Content.commits[r] ELSE 0]

ValueThatWasSet ==
  IF \E r \in SetWrites : Value[r] = Content.domain THEN Content.domain ELSE NoValue

Dedupes ==
  INSTANCE ToolTarget WITH
    Exec <- Requests, Writes <- SetWrites, TargetDedupes <- TRUE,
    Keyed <- {r \in SetWrites : Kind[r] \in Deduping},
    Value <- [r \in SetWrites |-> Value[r]],
    commits <- SetEffects,
    actionLog <- {r \in SetWrites : Recorded(Content, r).by = r},
    domain <- ValueThatWasSet, late <- [r \in Requests |-> 0]

Logs ==
  INSTANCE ToolTarget WITH
    Exec <- Requests, Writes <- SetWrites, TargetDedupes <- FALSE,
    Keyed <- {r \in SetWrites : Id[r] # NoId},
    Value <- [r \in SetWrites |-> Value[r]],
    commits <- SetEffects,
    actionLog <- {r \in SetWrites : Id[r] # NoId /\ Content.commits[r] > 0},
    domain <- ValueThatWasSet, late <- [r \in Requests |-> 0]

TakesEffect(r) == Content'.commits = [Content.commits EXCEPT ![r] = @ + 1]

(* Calls that do not overlap implement the atomic target the recovery      *)
(* models use: a step gives at most one request its effect, which a        *)
(* deduplicating method makes once per id, whatever is killed; it is that  *)
(* request's Apply if it sets a value, and else only a deletion takes away *)
(* a value that was set.                                                   *)
AppliesAtomically ==
  [][Quiet => \/ Content'.commits = Content.commits /\ UNCHANGED Dedupes!targetVars
              \/ \E r \in SetWrites :
                   TakesEffect(r) /\ Dedupes!Apply(r) /\ Logs!Apply(r)
              \/ \E r \in Requests \ SetWrites :
                   /\ TakesEffect(r)
                   /\ ValueThatWasSet' # ValueThatWasSet
                        => r \in OfAction("delete_value") /\ ValueThatWasSet' = NoValue]_vars
=============================================================================
