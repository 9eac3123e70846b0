---------------------------- MODULE GitCliFetcher ----------------------------
(***************************************************************************)
(* GitCliFetcher of projgit-core/src/fetcher/git_cli.rs: on-demand         *)
(* fetch_object, coalesced per object id, and prefetch_headers batches,    *)
(* kept apart by a claim set, over one pool of git children and one object *)
(* store.                                                                  *)
(*                                                                         *)
(* It composes SingleFlight (what its Coalescer implements) and BatchPool: *)
(* Readers call fetch_object, Prefetchers call prefetch_headers (which     *)
(* fetch_objects also is), and both use the pool.                          *)
(***************************************************************************)
EXTENDS Naturals, Sequences, FiniteSets, Picks

CONSTANTS Readers,      \* threads in fetch_object
          Prefetchers,  \* threads in prefetch_headers
          Oids, Upstream, PoolSize, MaxFaults, MaxRefusals, NoOne,   \* see BatchPool
          Batches,      \* the arguments of prefetch_headers: sequences of object ids
          MaxCalls,     \* bound on the calls one reader makes
          MaxBatches,   \* bound on the batches one prefetcher asks for
          NoFlight, Pending                                          \* see SingleFlight

ASSUME FetcherAssumption ==
    /\ Readers \cap Prefetchers = {}
    /\ NoOne \notin Readers \cup Prefetchers
    /\ PoolSize \in Nat \ {0}
    /\ MaxFaults \in Nat
    /\ MaxRefusals \in Nat
    /\ Upstream \subseteq Oids
    /\ Batches \subseteq Seq(Oids) \ {<<>>}
    /\ MaxCalls \in Nat
    /\ MaxBatches \in Nat

\* FetcherError, by variant.
Errors == {"Refused", "Transport", "NotPresentAfterFetch", "Backend"}

\* The two null values differ from what they stand in for.
ASSUME NullAssumption ==
    /\ NoFlight \notin Readers \X (1..MaxCalls)
    /\ Pending \notin {"Ok"} \cup Errors

VARIABLES
    next, owner, child, disk, faults, refusals, op, start, tried, mine, want, got,
    attempt,                                          \* the pool
    open, outcome, phase, key, flight, calls,         \* the coalescer
    visible,    \* the objects store.contains finds (the store may lag behind disk)
    reply,      \* reader -> what its last fetch_object returned
    claims,     \* PrefetchClaims.inflight
    step,       \* prefetcher -> where it is in prefetch_headers
    batch,      \* prefetcher -> its `oids`
    lead,       \* prefetcher -> the claimed subset it fetches
    probes,     \* prefetcher -> probes_by_oid, a partial function
    returned,   \* prefetcher -> the probes its last call returned
    batches     \* prefetcher -> batches asked for so far

poolVars == <<next, owner, child, disk, faults, refusals, op, start, tried, mine, want, got,
              attempt>>
flightVars == <<open, outcome, phase, key, flight, calls>>
batchVars == <<claims, step, batch, lead, probes, returned, batches>>
vars == <<poolVars, flightVars, visible, reply, batchVars>>

Pool == INSTANCE BatchPool WITH
          Actors <- Readers \cup Prefetchers,
          Requests <- {<<o>> : o \in Oids} \cup Batches

Single == INSTANCE SingleFlight WITH
            Threads <- Readers, Keys <- Oids, Results <- {"Ok"} \cup Errors

NoProbes == [o \in {} |-> "Present"]

Init ==
    /\ Pool!Init
    /\ Single!Init
    /\ visible = {}
    /\ reply = [t \in Readers |-> "none"]
    /\ claims = {}
    /\ step = [p \in Prefetchers |-> "idle"]
    /\ batch = [p \in Prefetchers |-> <<>>]
    /\ lead = [p \in Prefetchers |-> <<>>]
    /\ probes = [p \in Prefetchers |-> NoProbes]
    /\ returned = [p \in Prefetchers |-> <<>>]
    /\ batches = [p \in Prefetchers |-> 0]

-----------------------------------------------------------------------------
(* fetch_object, and raw_fetch inside the coalescer.                       *)

\* The object is present: no call at all.
FetchObjectPresent(t, o) ==
    /\ phase[t] = "idle"
    /\ o \in visible
    /\ reply' = [reply EXCEPT ![t] = "Ok"]
    /\ UNCHANGED <<poolVars, flightVars, visible, batchVars>>

FetchObject(t, o) ==
    /\ o \notin visible
    /\ Single!Call(t, o)
    /\ reply' = [reply EXCEPT ![t] = "none"]
    /\ UNCHANGED <<poolVars, visible, batchVars>>

\* The leader runs raw_fetch; a follower waits.
LeadFetch(t) ==
    /\ Single!Open(t)
    /\ Pool!Begin(t, <<key[t]>>)
    /\ UNCHANGED <<visible, reply, batchVars>>

JoinFetch(t) ==
    /\ Single!Attach(t)
    /\ UNCHANGED <<poolVars, visible, reply, batchVars>>

\* With the slot in hand: another caller has made the object local.
DoubleCheckMutantDisk(t) ==
    /\ key[t] \in disk
    /\ Pool!Abandon(t)
    /\ UNCHANGED <<flightVars, visible, reply, batchVars>>

DoubleCheck(t) ==
    /\ key[t] \in visible
    /\ Pool!Abandon(t)
    /\ UNCHANGED <<flightVars, visible, reply, batchVars>>

\* With the slot in hand: the object is still absent, so ask.
Ask(t) ==
    /\ key[t] \notin visible
    /\ Pool!Query(t) \/ Pool!SpawnFails(t)
    /\ UNCHANGED <<flightVars, visible, reply, batchVars>>

\* The steps that do not depend on who the caller is.
RoundTrip(a) ==
    /\ \/ Pool!Acquire(a)
       \/ Pool!TryLock(a)
       \/ Pool!TryLockBusy(a)
       \/ Pool!LockStart(a)
       \/ Pool!ReadLine(a)
       \/ Pool!IoFails(a)
    /\ UNCHANGED <<flightVars, visible, reply, batchVars>>

\* parse_line (the echoed sha must be the one asked for) and classify, for one line.
Classify(o, line) ==
    IF line.oid # o THEN "Backend"
    ELSE IF line.kind = "missing" THEN "Refused"
    ELSE IF o \notin visible THEN "NotPresentAfterFetch" ELSE "Ok"

\* What raw_fetch returns.
RawFetchResult(t) ==
    CASE op[t] = "abandoned" -> "Ok"
      [] op[t] = "unspawned" -> "Backend"
      [] op[t] = "exhausted" -> "Transport"
      [] OTHER               -> Classify(key[t], got[t][1])

RawFetchReturns(t) ==
    /\ Pool!Finish(t)
    /\ Single!Settle(t, RawFetchResult(t))
    /\ UNCHANGED <<visible, reply, batchVars>>

\* The words of a FetcherError's Display text: the coalescer carries an error between
\* threads as that text.
DisplayWords(e) ==
    CASE e = "Refused"              -> {"remote", "refused", "object"}
      [] e = "Transport"            -> {"transport", "error", "fetching"}
      [] e = "NotPresentAfterFetch" -> {"post-fetch", "verification", "failed", "for"}
      [] e = "Backend"              -> {"fetch", "backend", "error", "for"}

\* The map_err of fetch_object: `s.contains("Refused")` and so on.
Reclassified(r) ==
    IF r = "Ok" THEN "Ok"
    ELSE CASE "Refused" \in DisplayWords(r)              -> "Refused"
           [] "Transport" \in DisplayWords(r)            -> "Transport"
           [] "NotPresentAfterFetch" \in DisplayWords(r) -> "NotPresentAfterFetch"
           [] OTHER                                      -> "Backend"

FetchObjectReturns(t) ==
    /\ Single!Close(t) \/ Single!Return(t)
    /\ reply' = [reply EXCEPT ![t] = Reclassified(outcome[flight[t]])]
    /\ UNCHANGED <<poolVars, visible, batchVars>>

-----------------------------------------------------------------------------
(* prefetch_headers.                                                       *)

Elements(s) == {s[i] : i \in DOMAIN s}

\* What is present is answered at once.
PrefetchHeaders(p, b) ==
    /\ step[p] = "idle"
    /\ batches[p] < MaxBatches
    /\ step' = [step EXCEPT ![p] = "claim"]
    /\ batch' = [batch EXCEPT ![p] = b]
    /\ probes' = [probes EXCEPT ![p] = [o \in Elements(b) \cap visible |-> "Present"]]
    /\ returned' = [returned EXCEPT ![p] = <<>>]
    /\ batches' = [batches EXCEPT ![p] = @ + 1]
    /\ UNCHANGED <<poolVars, flightVars, visible, reply, claims, lead>>

ToQuery(p) == Elements(batch[p]) \ DOMAIN probes[p]

\* Under the claim set's lock: claim what nobody has claimed.
Claim(p) ==
    /\ step[p] = "claim"
    /\ lead' = [lead EXCEPT ![p] = FirstOccurrences(batch[p], ToQuery(p) \ claims)]
    /\ claims' = claims \cup ToQuery(p)
    /\ step' = [step EXCEPT ![p] = "skip"]
    /\ UNCHANGED <<poolVars, flightVars, visible, reply, batch, probes, returned, batches>>

\* What a peer has claimed is answered from the store as it is now; the rest, if
\* there is any, goes through the pool.
Skip(p) ==
    LET known == probes[p]
        skipped == ToQuery(p) \ Elements(lead[p])
    IN
    /\ step[p] = "skip"
    /\ probes' = [probes EXCEPT ![p] =
          [o \in DOMAIN known \cup skipped |->
             IF o \in DOMAIN known THEN known[o]
             ELSE IF o \in visible THEN "PresentWithHeader" ELSE "Present"]]
    /\ IF lead[p] = <<>>
       THEN step' = [step EXCEPT ![p] = "assemble"] /\ UNCHANGED poolVars
       ELSE step' = [step EXCEPT ![p] = "fetch"] /\ Pool!Begin(p, lead[p])
    /\ UNCHANGED <<flightVars, visible, reply, claims, batch, lead, returned, batches>>

AskBatch(p) ==
    /\ Pool!Query(p) \/ Pool!SpawnFails(p)
    /\ UNCHANGED <<flightVars, visible, reply, batchVars>>

\* The probe of the i-th object of the lead.
LeadProbe(p, i) ==
    CASE op[p] = "unspawned" -> "Backend"
      [] op[p] = "exhausted" -> "Transport"
      [] OTHER -> LET r == Classify(lead[p][i], got[p][i])
                  IN  IF r = "Ok" THEN "PresentWithHeader" ELSE r

BatchAnswered(p) ==
    LET known == probes[p] IN
    /\ step[p] = "fetch"
    /\ Pool!Finish(p)
    /\ probes' = [probes EXCEPT ![p] =
          [o \in DOMAIN known \cup Elements(lead[p]) |->
             IF o \in Elements(lead[p])
             THEN LeadProbe(p, CHOOSE i \in DOMAIN lead[p] : lead[p][i] = o)
             ELSE known[o]]]
    /\ step' = [step EXCEPT ![p] = "assemble"]
    /\ UNCHANGED <<flightVars, visible, reply, claims, batch, lead, returned, batches>>

\* The i-th object of a batch is not listed before.
FirstPlace(oids, i) == \A j \in 1..(i - 1) : oids[j] # oids[i]

\* reorder_probes: `remove` leaves nothing for the second occurrence of an object.
Reordered(oids, byOid) ==
    [i \in DOMAIN oids |->
        IF oids[i] \in DOMAIN byOid /\ FirstPlace(oids, i)
        THEN byOid[oids[i]] ELSE "Backend"]

ReturnProbesMutantKeepsClaims(p) ==
    /\ step[p] = "assemble"
    /\ returned' = [returned EXCEPT ![p] = Reordered(batch[p], probes[p])]
    /\ lead' = [lead EXCEPT ![p] = <<>>]
    /\ probes' = [probes EXCEPT ![p] = NoProbes]
    /\ step' = [step EXCEPT ![p] = "idle"]
    /\ UNCHANGED <<poolVars, flightVars, visible, reply, claims, batch, batches>>

\* Return the probes; dropping the ClaimGuard releases the lead.
ReturnProbes(p) ==
    /\ step[p] = "assemble"
    /\ returned' = [returned EXCEPT ![p] = Reordered(batch[p], probes[p])]
    /\ claims' = claims \ Elements(lead[p])
    /\ lead' = [lead EXCEPT ![p] = <<>>]
    /\ probes' = [probes EXCEPT ![p] = NoProbes]
    /\ step' = [step EXCEPT ![p] = "idle"]
    /\ UNCHANGED <<poolVars, flightVars, visible, reply, batch, batches>>

-----------------------------------------------------------------------------
(* The children and the store.                                             *)

ServeChild(s) == Pool!Serve(s) /\ UNCHANGED <<flightVars, visible, reply, batchVars>>

ChildExits(s) == Pool!Exit(s) /\ UNCHANGED <<flightVars, visible, reply, batchVars>>

\* The store's handle notices a pack that git has written (external: gix).
Refresh(o) ==
    /\ o \in disk \ visible
    /\ visible' = visible \cup {o}
    /\ UNCHANGED <<poolVars, flightVars, reply, batchVars>>

-----------------------------------------------------------------------------
ReaderStep(t) ==
    \/ LeadFetch(t)
    \/ JoinFetch(t)
    \/ DoubleCheck(t)
    \/ Ask(t)
    \/ RoundTrip(t)
    \/ RawFetchReturns(t)
    \/ FetchObjectReturns(t)

PrefetcherStep(p) ==
    \/ Claim(p)
    \/ Skip(p)
    \/ AskBatch(p)
    \/ RoundTrip(p)
    \/ BatchAnswered(p)
    \/ ReturnProbes(p)

Next ==
    \/ \E t \in Readers :
        \/ \E o \in Oids : FetchObjectPresent(t, o) \/ FetchObject(t, o)
        \/ ReaderStep(t)
    \/ \E p \in Prefetchers :
        \/ \E b \in Batches : PrefetchHeaders(p, b)
        \/ PrefetcherStep(p)
    \/ \E s \in Pool!Slots : ServeChild(s) \/ ChildExits(s)
    \/ \E o \in Oids : Refresh(o)

\* Threads that are in a call run; a living child answers.  Nobody has to call, no
\* child has to die, and the store need not notice a pack before it is asked again.
Fairness ==
    /\ \A t \in Readers : WF_vars(ReaderStep(t))
    /\ \A p \in Prefetchers : WF_vars(PrefetcherStep(p))
    /\ \A s \in Pool!Slots : WF_vars(ServeChild(s))

Spec == Init /\ [][Next]_vars /\ Fairness

-----------------------------------------------------------------------------
(* The Fetcher contract: fetch_object returns Ok only when the object can  *)
(* be read from the store, for the leader that fetched it, the followers   *)
(* that only waited and the caller whose double check cut the fetch short; *)
(* and a batch says PresentWithHeader, which is published straight to the  *)
(* header cache, only of such an object.                                   *)
OkMeansResident ==
    /\ \A t \in Readers :
          phase[t] \in {"leader", "follower"} /\ outcome[flight[t]] = "Ok" => key[t] \in visible
    /\ \A p \in Prefetchers : \A i \in DOMAIN returned[p] :
          returned[p][i] = "PresentWithHeader" => batch[p][i] \in visible

\* What must have happened for a probe r to be an honest answer about o.
Justified(r, o) ==
    CASE r = "Refused"              -> o \notin Upstream
      [] r = "Transport"            -> faults >= 2
      [] r = "NotPresentAfterFetch" -> o \in disk
      [] r = "Backend"              -> refusals >= 1
      [] OTHER                      -> TRUE

\* Something has gone wrong that a fetch of o may fail of: the remote cannot deliver it,
\* the round trip and its retry failed, git could not be started, or git has delivered it
\* and the store had not noticed.
CanFail(o) == o \notin Upstream \/ faults >= 2 \/ refusals >= 1 \/ o \in disk

(* Every error a caller gets has a cause.  A reader learns only that there *)
(* was one: the map_err of fetch_object finds none of its words in the     *)
(* Display text, so every error arrives as Backend; but it never gets one  *)
(* about an object that the remote has unless two faults happened (a dead  *)
(* child is dropped by the first caller that meets it, so it is never      *)
(* counted twice), a spawn failed or the store lagged behind git.  A batch *)
(* keeps the variants, and each has its own cause at the first place of an *)
(* object; a later place of the same object always holds a Backend without *)
(* any, because reorder_probes has taken the probe.  In particular no      *)
(* answer about one object is ever taken for an answer about another.      *)
ErrorsHaveCauses ==
    /\ \A t \in Readers : reply[t] \in Errors => CanFail(key[t])
    /\ \A p \in Prefetchers : \A i \in DOMAIN returned[p] :
          FirstPlace(batch[p], i) => Justified(returned[p][i], batch[p][i])

(* The claim set is exactly what the batches in progress lead, and no two  *)
(* of them lead the same object: no claim is leaked by an early return or  *)
(* an error, so no object is skipped by every later batch for ever.        *)
ClaimsExact ==
    /\ claims = UNION {Elements(lead[p]) : p \in Prefetchers}
    /\ \A p, q \in Prefetchers : p # q => Elements(lead[p]) \cap Elements(lead[q]) = {}

\* The callers in S with a request for o under way.
AskingFor(o, S) == {a \in S : op[a] \notin {"none"} \cup Pool!Over /\ o \in Elements(want[a])}

(* Coalescing works: at any time at most one reader and at most one batch  *)
(* are asking git for an object, whatever the number of callers.           *)
AtMostTwoAsk ==
    \A o \in Oids :
        /\ Cardinality(AskingFor(o, Readers)) <= 1
        /\ Cardinality(AskingFor(o, Prefetchers)) <= 1

(* Every fetch_object and every prefetch_headers returns, whatever fails.  *)
EveryCallReturns ==
    /\ \A t \in Readers : phase[t] = "called" ~> phase[t] = "idle"
    /\ \A p \in Prefetchers : step[p] = "claim" ~> step[p] = "idle"
=============================================================================
