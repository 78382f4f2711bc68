----------------------------- MODULE SharedKvRows -----------------------------
(***************************************************************************)
(* The K and V rows of a prompt, read in place where a prefill wrote them  *)
(* (src/src/metal_backend/shared_rows.rs).  Views of one buffer share it:  *)
(* every state that has the prompt as a prefix reads the rows it had when  *)
(* it was saved.  Behind them the buffer has a reserve, and a writer may   *)
(* go on in it instead of copying the prefix: a prefill that extends the   *)
(* prompt (metal_backend/prefill/resident.rs), or the arena of a decode    *)
(* that adopts the buffer (decode_resident/attention.rs).                  *)
(*                                                                         *)
(* A writer claims the two buffers first and then looks at the register of *)
(* the ends of the live views, K before V, while other threads clone, cut  *)
(* and drop theirs.  The GPU writes when it gets there.                    *)
(*                                                                         *)
(* A view is one SharedRows value, whoever holds the Arc around it.  Views *)
(* that do not start at the start of their buffer are never extended and   *)
(* are left out.                                                           *)
(***************************************************************************)
EXTENDS Integers, FiniteSets

CONSTANTS
    Views,         \* names for views, used again after a drop
    Writers,       \* prefills and arenas that may want the reserve
    Rows           \* rows a buffer has room for

ASSUME SizesAssumption == Rows \in Nat /\ IsFiniteSet(Views)

Sides == {"k", "v"}

VARIABLES
    of,            \* the buffer of a view, or "none"
    len,           \* SharedRows.len
    cut,           \* the length a view is being cut to, -1 if it is not
    live,          \* LiveEnds of each buffer: how many views end at each row
    claimed,       \* IN_PLACE_ALLOCATIONS
    step,          \* where a writer is
    kind,          \* what it is: a prefill or an arena
    prefix,        \* the two views it goes on after, while it borrows them
    start,         \* InPlaceClaim.starts, the same for K and V
    filled,        \* rows of the buffer it has written or sent to be written
    flight         \* rows that its commands in flight may still write

views == <<of, len, cut>>
writers == <<step, kind, prefix, start, filled, flight>>
vars == <<views, live, claimed, writers>>

-----------------------------------------------------------------------------
Live(v) == of[v] # "none"

\* A view that somebody borrows is neither cut nor dropped: a prefill keeps its
\* prefix to the end, an arena until it has adopted it.
Borrowed(v) == \E w \in Writers : v \in prefix[w]

Owned(v) == Live(v) /\ cut[v] = -1 /\ ~Borrowed(v)

\* LiveEnds::add and LiveEnds::remove.
Add(a, end) == [live EXCEPT ![a][end] = @ + 1]
Remove(a, end) == [live EXCEPT ![a][end] = @ - 1]

\* SharedRows::is_whole: no live view of the buffer ends after this one.
Whole(v) == \A end \in len[v] + 1 .. Rows : live[of[v]][end] = 0

-----------------------------------------------------------------------------
NoEnds == [end \in 0 .. Rows |-> 0]

Init ==
    /\ of = [v \in Views |-> "none"] /\ len = [v \in Views |-> 0]
    /\ cut = [v \in Views |-> -1]
    /\ live = [a \in Sides |-> NoEnds]
    /\ claimed = {}
    /\ step = [w \in Writers |-> "idle"] /\ kind = [w \in Writers |-> "prefill"]
    /\ prefix = [w \in Writers |-> {}] /\ start = [w \in Writers |-> 0]
    /\ filled = [w \in Writers |-> 0] /\ flight = [w \in Writers |-> {}]

\* shared_kv_rows: a cold prefill hands over the first views of two new buffers,
\* once nobody has the last ones.
NewBuffers(k, v, n) ==
    /\ \A u \in Views : ~Live(u)
    /\ claimed = {} /\ k # v
    /\ of' = [of EXCEPT ![k] = "k", ![v] = "v"]
    /\ len' = [len EXCEPT ![k] = n, ![v] = n]
    /\ live' = [a \in Sides |-> [NoEnds EXCEPT ![n] = 1]]
    /\ UNCHANGED <<cut, claimed, writers>>

\* Mutant of Clone: derived, it shares the register without counting its end.
CloneDerived(v, new) ==
    /\ Live(v) /\ cut[v] = -1 /\ ~Live(new)
    /\ of' = [of EXCEPT ![new] = of[v]]
    /\ len' = [len EXCEPT ![new] = len[v]]
    /\ UNCHANGED <<cut, live, claimed, writers>>

\* SharedRows::clone: the end is counted before the view is there.
Clone(v, new) ==
    /\ Live(v) /\ cut[v] = -1 /\ ~Live(new)
    /\ of' = [of EXCEPT ![new] = of[v]]
    /\ len' = [len EXCEPT ![new] = len[v]]
    /\ live' = Add(of[v], len[v])
    /\ UNCHANGED <<cut, claimed, writers>>

\* SharedRows::truncate: the new end is counted first, the old one is removed
\* in a second critical section.
CutBegin(v, n) ==
    /\ Owned(v) /\ n < len[v]
    /\ cut' = [cut EXCEPT ![v] = n]
    /\ live' = Add(of[v], n)
    /\ UNCHANGED <<of, len, claimed, writers>>

\* Mutant of CutEnd: the length is assigned first, so the new end is removed.
CutEndLate(v) ==
    /\ Live(v) /\ cut[v] # -1
    /\ live' = Remove(of[v], cut[v])
    /\ len' = [len EXCEPT ![v] = cut[v]]
    /\ cut' = [cut EXCEPT ![v] = -1]
    /\ UNCHANGED <<of, claimed, writers>>

CutEnd(v) ==
    /\ Live(v) /\ cut[v] # -1
    /\ live' = Remove(of[v], len[v])
    /\ len' = [len EXCEPT ![v] = cut[v]]
    /\ cut' = [cut EXCEPT ![v] = -1]
    /\ UNCHANGED <<of, claimed, writers>>

\* SharedRows::drop.
Drop(v) ==
    /\ Owned(v)
    /\ live' = Remove(of[v], len[v])
    /\ of' = [of EXCEPT ![v] = "none"]
    /\ UNCHANGED <<len, cut, claimed, writers>>

-----------------------------------------------------------------------------
\* InPlaceClaim::try_new, for views of one length: both buffers or none.
Claim(w, k, v, as) ==
    /\ step[w] = "idle"
    /\ Live(k) /\ Live(v) /\ of[k] = "k" /\ of[v] = "v"
    /\ cut[k] = -1 /\ cut[v] = -1 /\ len[k] = len[v]
    /\ claimed \cap Sides = {}
    /\ claimed' = claimed \cup Sides
    /\ kind' = [kind EXCEPT ![w] = as]
    /\ prefix' = [prefix EXCEPT ![w] = {k, v}]
    /\ start' = [start EXCEPT ![w] = len[k]]
    /\ filled' = [filled EXCEPT ![w] = len[k]]
    /\ step' = [step EXCEPT ![w] = "claimed"]
    /\ UNCHANGED <<views, live, flight>>

\* Mutant of GiveBack: a writer that is refused keeps the key buffer claimed.
GiveBackValue(w) ==
    /\ claimed' = claimed \ {"v"}
    /\ step' = [step EXCEPT ![w] = "idle"]
    /\ prefix' = [prefix EXCEPT ![w] = {}]
    /\ start' = [start EXCEPT ![w] = 0] /\ filled' = [filled EXCEPT ![w] = 0]
    /\ UNCHANGED <<views, live, kind, flight>>

GiveBack(w) ==
    /\ claimed' = claimed \ Sides
    /\ step' = [step EXCEPT ![w] = "idle"]
    /\ prefix' = [prefix EXCEPT ![w] = {}]
    /\ start' = [start EXCEPT ![w] = 0] /\ filled' = [filled EXCEPT ![w] = 0]
    /\ UNCHANGED <<views, live, kind, flight>>

WholeOn(w, a) == \A v \in prefix[w] : of[v] = a => Whole(v)

\* InPlaceClaim::try_after, under the claim: K then V, each in its own register.
\* An arena lets go of the views once it has adopted their buffers.
CheckKey(w) ==
    /\ step[w] = "claimed" /\ WholeOn(w, "k")
    /\ step' = [step EXCEPT ![w] = "half"]
    /\ UNCHANGED <<views, live, claimed, kind, prefix, start, filled, flight>>

CheckValue(w) ==
    /\ step[w] = "half" /\ WholeOn(w, "v")
    /\ step' = [step EXCEPT ![w] = "granted"]
    /\ prefix' = IF kind[w] = "arena" THEN [prefix EXCEPT ![w] = {}] ELSE prefix
    /\ UNCHANGED <<views, live, claimed, kind, start, filled, flight>>

\* A longer view is alive: the claim is given back, the caller copies the prefix.
Refuse(w) ==
    /\ \/ step[w] = "claimed" /\ ~WholeOn(w, "k")
       \/ step[w] = "half" /\ ~WholeOn(w, "v")
    /\ GiveBack(w)

\* Commands for rows after those already filled are submitted: all the rows of
\* a prefill in one command buffer, those of a decode step by step.
Write(w, n) ==
    /\ step[w] = "granted" /\ n > filled[w]
    /\ kind[w] = "prefill" => filled[w] = start[w]
    /\ flight' = [flight EXCEPT ![w] = @ \cup (filled[w] + 1 .. n)]
    /\ filled' = [filled EXCEPT ![w] = n]
    /\ UNCHANGED <<views, live, claimed, step, kind, prefix, start>>

\* FullAttentionMetalState::truncate, never below the adopted prefix.
RollBack(w, n) ==
    /\ step[w] = "granted" /\ kind[w] = "arena"
    /\ start[w] <= n /\ n < filled[w]
    /\ filled' = [filled EXCEPT ![w] = n]
    /\ UNCHANGED <<views, live, claimed, step, kind, prefix, start, flight>>

\* The GPU has written one of the rows for good.
GpuWrites(w, row) ==
    /\ row \in flight[w]
    /\ flight' = [flight EXCEPT ![w] = @ \ {row}]
    /\ UNCHANGED <<views, live, claimed, step, kind, prefix, start, filled>>

\* SharedRows::extended, after the commands of the prefill have ended: one view
\* up to the last row written, of K and then of V.
Extended(w, a, new) ==
    /\ ~Live(new)
    /\ \A v \in prefix[w] : of[v] = a => start[w] = len[v] /\ len[v] <= filled[w]
    /\ of' = [of EXCEPT ![new] = a]
    /\ len' = [len EXCEPT ![new] = filled[w]]
    /\ live' = Add(a, filled[w])

\* Mutant of Waited: nobody waits for the commands in flight.
WaitedNot(w) == w \in Writers

Waited(w) == flight[w] = {}

PublishKey(w, new) ==
    /\ step[w] = "granted" /\ kind[w] = "prefill" /\ Waited(w)
    /\ filled[w] > start[w]
    /\ Extended(w, "k", new)
    /\ step' = [step EXCEPT ![w] = "published"]
    /\ UNCHANGED <<cut, claimed, kind, prefix, start, filled, flight>>

PublishValue(w, new) ==
    /\ step[w] = "published"
    /\ Extended(w, "v", new)
    /\ step' = [step EXCEPT ![w] = "over"]
    /\ UNCHANGED <<cut, claimed, kind, prefix, start, filled, flight>>

\* The claim is dropped, published or not (an f32 prefill reads its rows back,
\* an arena keeps them to itself, any of them may fail): the prefill has waited
\* for its commands, AdoptedKv::drop waits for all of its queue.
Release(w) ==
    /\ step[w] \in {"granted", "over"} /\ Waited(w)
    /\ GiveBack(w)

-----------------------------------------------------------------------------
Next ==
    \/ \E k, v \in Views, n \in 1 .. Rows : NewBuffers(k, v, n)
    \/ \E v, new \in Views : Clone(v, new)
    \/ \E v \in Views, n \in 0 .. Rows : CutBegin(v, n)
    \/ \E v \in Views : CutEnd(v) \/ Drop(v)
    \/ \E w \in Writers :
        \/ \E k, v \in Views, as \in {"prefill", "arena"} : Claim(w, k, v, as)
        \/ CheckKey(w) \/ CheckValue(w) \/ Refuse(w) \/ Release(w)
        \/ \E n \in 0 .. Rows : Write(w, n) \/ RollBack(w, n)
        \/ \E row \in 1 .. Rows : GpuWrites(w, row)
        \/ \E new \in Views : PublishKey(w, new) \/ PublishValue(w, new)

Spec == Init /\ [][Next]_vars

-----------------------------------------------------------------------------
TypeOK ==
    /\ of \in [Views -> Sides \cup {"none"}]
    /\ len \in [Views -> 0 .. Rows]
    /\ cut \in [Views -> -1 .. Rows]
    /\ live \in [Sides -> [0 .. Rows -> Nat]]
    /\ claimed \subseteq Sides
    /\ step \in [Writers -> {"idle", "claimed", "half", "granted", "published", "over"}]
    /\ kind \in [Writers -> {"prefill", "arena"}]
    /\ prefix \in [Writers -> SUBSET Views]
    /\ start \in [Writers -> 0 .. Rows]
    /\ filled \in [Writers -> 0 .. Rows]
    /\ flight \in [Writers -> SUBSET (1 .. Rows)]

\* The views that end at a row of a buffer, and those being cut to it.
Ending(a, end) == {v \in Views : of[v] = a /\ len[v] = end}
CutTo(a, end) == {v \in Views : of[v] = a /\ cut[v] = end}

\* The register counts every live view, at both its ends while it is being cut,
\* whatever the order in which views are cloned, cut, extended and dropped.
RegistryExact ==
    \A a \in Sides, end \in 0 .. Rows :
        live[a][end] = Cardinality(Ending(a, end)) + Cardinality(CutTo(a, end))

\* Two writers never have the reserve of a buffer, and a buffer is claimed only
\* as long as a writer has it: none is lost to the writers that come after.
ClaimExact ==
    /\ \A w, x \in Writers : step[w] # "idle" /\ step[x] # "idle" => w = x
    /\ claimed = IF \E w \in Writers : step[w] # "idle" THEN Sides ELSE {}

\* No command in flight writes a row that a live view covers, from the moment it
\* is submitted to its end: what a saved state reads never changes.
Untouched ==
    \A w \in Writers : \A row \in flight[w], v \in Views : Live(v) => len[v] < row

===============================================================================
