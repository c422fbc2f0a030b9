----------------------------- MODULE HybridSPPWAM -----------------------------
(***************************************************************************)
(* The hybrid_spp_wam ChampSim prefetcher: SPP always runs, and DirectWAM  *)
(* is a sidecar that a selector enables.  The selector counts, in a window *)
(* of WINDOW demand accesses, how many hit a prefetched line.              *)
(*                                                                         *)
(* SPP is not part of this repository: it shows only as prefetches that    *)
(* fill lines, any number of them up to MaxFills.                          *)
(***************************************************************************)
EXTENDS DirectWAM

CONSTANTS
  WINDOW,
  MINIMUM,      \* accesses of a window before the selector may abstain: 64
  RATE_NUM,     \* MIN_PRIMARY_USEFUL_RATE_NUM
  RATE_DEN,     \* MIN_PRIMARY_USEFUL_RATE_DEN
  MaxSeen,      \* bound on the demand accesses of a run
  MaxFills      \* bound on the prefetches, SPP's included, that fill a line

ASSUME SelectorAssumption ==
  /\ MINIMUM \in Nat \ {0} /\ WINDOW \in Nat /\ MINIMUM <= WINDOW
  /\ RATE_NUM \in Nat /\ RATE_DEN \in Nat \ {0}
  /\ MaxSeen \in Nat /\ MaxFills \in Nat

VARIABLES
  selector,     \* primary_accesses_, primary_useful_, sidecar_enabled_, selector_abstains_
  credited,     \* useful-prefetch notifications ChampSim has given
  seen          \* history: every demand access, with what the selector did

hybridVars == <<vars, selector, credited, seen>>

HybridInit ==
  /\ Init
  /\ selector = [accesses |-> 0, useful |-> 0, enabled |-> 0, abstains |-> 0]
  /\ credited = 0
  /\ seen = <<>>

\* Mutation of NextWindow: the useful count survives the window.
NextWindowKeepsUseful(useful) ==
  [accesses |-> IF selector.accesses + 1 >= WINDOW THEN 0 ELSE selector.accesses + 1,
   useful |-> selector.useful + Tick(useful)]

\* The window after an access: counted, and cleared when it is full.
NextWindow(useful) ==
  LET full == selector.accesses + 1 >= WINDOW
  IN  [accesses |-> IF full THEN 0 ELSE selector.accesses + 1,
       useful |-> IF full THEN 0 ELSE selector.useful + Tick(useful)]

\* Mutation of Confident: no minimum.
ConfidentEarly(w) == w.useful * RATE_DEN >= w.accesses * RATE_NUM

Confident(w) == w.accesses >= MINIMUM /\ w.useful * RATE_DEN >= w.accesses * RATE_NUM

\* Mutation of HybridAccess: the sidecar is trained while the selector abstains.
HybridAccessAlways(line, useful, accepted) ==
  LET w == NextWindow(useful)
  IN  /\ Len(seen) < MaxSeen
      /\ useful => credited < fills
      /\ selector' = [accesses |-> w.accesses, useful |-> w.useful,
                      enabled |-> selector.enabled + Tick(~Confident(w)),
                      abstains |-> selector.abstains + Tick(Confident(w))]
      /\ credited' = credited + Tick(useful)
      /\ seen' = Append(seen, [line |-> line, useful |-> useful, sidecar |-> ~Confident(w)])
      /\ Access(line, useful, accepted)

\* prefetcher_cache_operate() for a demand access.
HybridAccess(line, useful, accepted) ==
  LET w == NextWindow(useful)
      abstains == Confident(w)
  IN  /\ final = NotYet
      /\ Len(seen) < MaxSeen
      /\ useful => credited < fills
      /\ selector' = [accesses |-> w.accesses, useful |-> w.useful,
                      enabled |-> selector.enabled + Tick(~abstains),
                      abstains |-> selector.abstains + Tick(abstains)]
      /\ credited' = credited + Tick(useful)
      /\ seen' = Append(seen, [line |-> line, useful |-> useful, sidecar |-> ~abstains])
      /\ IF abstains THEN ~accepted /\ UNCHANGED vars
         ELSE Access(line, useful, accepted)

\* An access of type PREFETCH reaches SPP only.
HybridPrefetchAccess ==
  /\ final = NotYet
  /\ credited < fills
  /\ credited' = credited + 1
  /\ UNCHANGED <<vars, selector, seen>>

\* prefetcher_cache_fill(): the sidecar is told of SPP's fills too.
HybridFill ==
  /\ final = NotYet
  /\ fills < MaxFills
  /\ fills' = fills + 1
  /\ UNCHANGED <<pending, history, counters, events, log, shadow, final, table, slots,
                 selector, credited, seen>>

HybridFinalStats ==
  /\ FinalStats
  /\ UNCHANGED <<table, slots, selector, credited, seen>>

HybridNext ==
  \/ \E line \in Line, useful, accepted \in BOOLEAN : HybridAccess(line, useful, accepted)
  \/ HybridPrefetchAccess
  \/ HybridFill
  \/ HybridFinalStats

HybridSpec == HybridInit /\ [][HybridNext]_hybridVars

----------------------------------------------------------------------------
SeenRecord == [line : Line, useful : BOOLEAN, sidecar : BOOLEAN]

\* Type invariant.
HybridTypeOK ==
  /\ TypeOK
  /\ selector \in [accesses : Nat, useful : Nat, enabled : Nat, abstains : Nat]
  /\ credited \in Nat
  /\ seen \in Seq(SeenRecord)

Positions == 1 .. Len(seen)

\* The accesses of the window that position i closes or belongs to.
WindowTo(i) == {j \in Positions : j <= i /\ i - j < i % WINDOW}

Useful(P) == Cardinality({j \in P : seen[j].useful})

\* Recounted from the accesses themselves: the selector's window is the one of
\* the code, and it abstains at exactly the accesses that find the window at
\* least MINIMUM long with a usefulness of RATE_NUM / RATE_DEN or more.
SelectorExact ==
  /\ selector.accesses = Len(seen) % WINDOW
  /\ selector.useful = Useful(WindowTo(Len(seen)))
  /\ \A i \in Positions :
       ~seen[i].sidecar <=>
         /\ i % WINDOW >= MINIMUM
         /\ Useful(WindowTo(i)) * RATE_DEN >= (i % WINDOW) * RATE_NUM

\* The accesses up to position i at which the sidecar is enabled.
Enabled(i) == {j \in 1 .. i : seen[j].sidecar}

\* The sidecar learns from exactly the accesses at which it is enabled, in order:
\* the k-th access of its stream is the k-th of these.
SidecarStream ==
  /\ Len(events) = Cardinality(Enabled(Len(seen)))
  /\ \A i \in Enabled(Len(seen)) : events[Cardinality(Enabled(i))] = seen[i].line

\* However useful SPP is, the sidecar sees at least MINIMUM of any WINDOW
\* consecutive accesses: it never stops training.
SidecarNeverStarves ==
  \A i \in Positions :
    i >= WINDOW => Cardinality({j \in i - WINDOW + 1 .. i : seen[j].sidecar}) >= MINIMUM
================================================================================
