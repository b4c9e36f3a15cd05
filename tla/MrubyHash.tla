----------------------------- MODULE MrubyHash ------------------------------
(***************************************************************************)
(* mruby's Hash (hash.c) over its open-addressing table (khash.h): buckets *)
(* that are empty, used or deleted, probed in steps of 1, 2, 3, ..., and a *)
(* table that is rebuilt with twice the buckets when it is three quarters  *)
(* occupied.  The order of the keys is a number kept with each value.      *)
(*                                                                         *)
(* The two loops that put entry after entry into another table (rebuilding *)
(* and dup) take a step for each bucket: hashing a key may call Ruby.  The *)
(* program waits for them.  Keys are equal when the code finds them equal. *)
(***************************************************************************)
EXTENDS Integers, FiniteSets, Sequences

CONSTANTS
    Key, Val,
    HashOf,       \* HashOf[k]: the 32 bits of mrb_hash_ht_hash_func
    DefaultSize,  \* KHASH_DEFAULT_SIZE
    Capacities,   \* table sizes asked of mrb_hash_new_capa, as powers of two
    MaxBuckets    \* bound: no table grows beyond it

\* The powers of two that khash_power2 rounds to.  Bound: 2^30, the largest
\* that TLC's integers hold.
Power[i \in 0..30] == IF i = 0 THEN 1 ELSE 2 * Power[i - 1]

Sizes == {Power[i] : i \in 2..30} \cap 1..MaxBuckets

\* The i-th bucket the loops of kh_get and kh_put look at.
Probe(n, k, i) == (HashOf[k] + (i * (i + 1)) \div 2) % n

ASSUME HashAssumption ==
    /\ HashOf \in [Key -> Nat]
    /\ MaxBuckets \in Nat
    /\ DefaultSize \in Sizes /\ Capacities \subseteq Sizes

\* Slip: a table may fill up.
UpperBoundAll(n) == n

\* UPPER_BOUND
UpperBound(n) == (n \div 4) + (n \div 2)

VARIABLES
    tab,   \* tab["hash"], and tab["dup"] while dup fills it
    hh,    \* kh_resize: the table under construction
    i,     \* kh_resize: next bucket to relocate, -1 when no rebuilding goes on
    put,   \* the kh_put under way, or NoPut
    j      \* dup: next bucket to copy, -1 when no dup goes on

vars == <<tab, hh, i, put, j>>

Tab == {"hash", "dup"}
Bucket(n) == 0..(n - 1)
Free == [state |-> "empty"]
Deleted == [state |-> "del"]
Entry(k, v, n) == [state |-> "used", key |-> k, v |-> v, n |-> n]

NoPut == [to |-> "none"]
Put(t, k, v, n) == [to |-> t, key |-> k, v |-> v, n |-> n]

Table(n, size, occupied, at) ==
    [n_buckets |-> n, size |-> size, n_occupied |-> occupied, at |-> at]

\* kh_alloc
kh_alloc(n) == Table(n, 0, 0, [b \in Bucket(n) |-> Free])

\* h with e in bucket b, and what that adds to size and to n_occupied.
Stored(h, b, e, ds, do) ==
    Table(h.n_buckets, h.size + ds, h.n_occupied + do, [h.at EXCEPT ![b] = e])

isempty(h, b) == h.at[b].state = "empty"
exist(h, b) == h.at[b].state = "used"
Holds(h, b, k) == exist(h, b) /\ h.at[b].key = k

\* Where the loop of kh_get and kh_put stops.
Stops(h, k) ==
    {s \in Bucket(h.n_buckets) : LET b == Probe(h.n_buckets, k, s) IN isempty(h, b) \/ Holds(h, b, k)}
First(S) == CHOOSE s \in S : \A t \in S : s <= t

Found(h, k) == Probe(h.n_buckets, k, First(Stops(h, k)))

\* kh_get: a bucket, or kh_end.
kh_get(h, k) == IF exist(h, Found(h, k)) THEN Found(h, k) ELSE h.n_buckets

\* Deleted buckets the loop of kh_put has passed.
Passed(h, k) ==
    {s \in Bucket(h.n_buckets) :
        s < First(Stops(h, k)) /\ h.at[Probe(h.n_buckets, k, s)].state = "del"}

\* kh_put and what its caller stores: mrb_hash_set overwrites the value and
\* gives a new key the last number, the loops copy both.
kh_put(h, k, v, n) ==
    LET b == Found(h, k)
        d == Probe(h.n_buckets, k, First(Passed(h, k)))
        new == Entry(k, v, IF n = -1 THEN h.size ELSE n)
    IN  IF exist(h, b)
        THEN Stored(h, b, Entry(k, v, IF n = -1 THEN h.at[b].n ELSE n), 0, 0)
        ELSE IF Passed(h, k) # {} THEN Stored(h, d, new, 1, 0)
        ELSE Stored(h, b, new, 1, 1)

\* Slip: a deleted bucket is marked empty.
kh_delEmpties(h, b) == Stored(h, b, Free, -1, 0)

\* kh_del
kh_del(h, b) == Stored(h, b, Deleted, -1, 0)

\* mrb_hash_delete_key: the keys after the deleted one move up.
MovedUp(e, n) == IF e.state = "used" /\ e.n > n THEN Entry(e.key, e.v, e.n - 1) ELSE e

\* Slip: the numbers behind the deleted key stay.
RemoveAtOnly(h, b) == kh_del(h, b)

RemoveAt(h, b) ==
    LET g == kh_del(h, b) IN
    Table(g.n_buckets, g.size, g.n_occupied,
          [c \in Bucket(g.n_buckets) |-> MovedUp(g.at[c], h.at[b].n)])

Full(h) == h.n_occupied >= UpperBound(h.n_buckets)

-----------------------------------------------------------------------------
Entries(h) == {b \in Bucket(h.n_buckets) : exist(h, b)}

EntryOK(e) ==
    \/ e \in {Free, Deleted}
    \/ e = Entry(e.key, e.v, e.n) /\ e.key \in Key /\ e.v \in Val /\ e.n \in Nat

TableOK(h) ==
    /\ h = Table(h.n_buckets, h.size, h.n_occupied, h.at)
    /\ h.n_buckets \in Sizes /\ h.size \in Nat /\ h.n_occupied \in Nat
    /\ h.at = [b \in Bucket(h.n_buckets) |-> h.at[b]]
    /\ \A b \in Bucket(h.n_buckets) : EntryOK(h.at[b])

TypeOK ==
    /\ tab = [t \in Tab |-> tab[t]]
    /\ TableOK(tab["hash"]) /\ TableOK(tab["dup"]) /\ TableOK(hh)
    /\ i \in Nat \cup {-1} /\ j \in Nat \cup {-1}
    /\ put # NoPut =>
          /\ put = Put(put.to, put.key, put.v, put.n) /\ put.to \in Tab
          /\ put.key \in Key /\ put.v \in Val /\ put.n \in Nat \cup {-1}

Blank == kh_alloc(DefaultSize)

\* mrb_hash_new_capa
Init ==
    /\ \E n \in Capacities \cup {DefaultSize} : tab = [t \in Tab |-> IF t = "hash" THEN kh_alloc(n) ELSE Blank]
    /\ hh = Blank /\ i = -1 /\ put = NoPut /\ j = -1

Idle == put = NoPut /\ j = -1

\* mrb_hash_set
mrb_hash_set(k, v) ==
    /\ Idle
    /\ put' = Put("hash", k, v, -1)
    /\ UNCHANGED <<tab, hh, i, j>>

\* Slip: the new table has the size of the old one.
GrowNot ==
    /\ put # NoPut /\ i = -1
    /\ Full(tab[put.to])
    /\ hh' = kh_alloc(tab[put.to].n_buckets)
    /\ i' = 0
    /\ UNCHANGED <<tab, put, j>>

\* kh_put, the beginning: kh_resize to twice the size.
Grow ==
    /\ put # NoPut /\ i = -1
    /\ Full(tab[put.to]) /\ 2 * tab[put.to].n_buckets \in Sizes
    /\ hh' = kh_alloc(2 * tab[put.to].n_buckets)
    /\ i' = 0
    /\ UNCHANGED <<tab, put, j>>

\* Slip: keys are numbered as they are met.
RelocateAsNew ==
    /\ i # -1 /\ i < tab[put.to].n_buckets
    /\ LET e == tab[put.to].at[i] IN
       hh' = IF exist(tab[put.to], i) THEN kh_put(hh, e.key, e.v, -1) ELSE hh
    /\ i' = i + 1
    /\ UNCHANGED <<tab, put, j>>

\* The loop of kh_resize.
Relocate ==
    /\ i # -1 /\ i < tab[put.to].n_buckets
    /\ LET e == tab[put.to].at[i] IN
       hh' = IF exist(tab[put.to], i) THEN kh_put(hh, e.key, e.v, e.n) ELSE hh
    /\ i' = i + 1
    /\ UNCHANGED <<tab, put, j>>

Grown ==
    /\ i # -1 /\ i = tab[put.to].n_buckets
    /\ tab' = [tab EXCEPT ![put.to] = hh]
    /\ hh' = Blank /\ i' = -1
    /\ UNCHANGED <<put, j>>

\* kh_put, the rest, back in the caller.
PutDone ==
    /\ put # NoPut /\ i = -1 /\ ~Full(tab[put.to])
    /\ tab' = [tab EXCEPT ![put.to] = kh_put(@, put.key, put.v, put.n)]
    /\ put' = NoPut
    /\ UNCHANGED <<hh, i, j>>

mrb_hash_delete_key(k) ==
    /\ Idle
    /\ LET h == tab["hash"] IN
       /\ kh_get(h, k) # h.n_buckets
       /\ tab' = [tab EXCEPT !["hash"] = RemoveAt(h, kh_get(h, k))]
    /\ UNCHANGED <<hh, i, put, j>>

\* mrb_hash_shift: the first entry in the order of the buckets.
mrb_hash_shift ==
    /\ Idle
    /\ LET h == tab["hash"] IN
       /\ Entries(h) # {}
       /\ tab' = [tab EXCEPT !["hash"] = RemoveAt(h, kh_get(h, h.at[First(Entries(h))].key))]
    /\ UNCHANGED <<hh, i, put, j>>

\* mrb_hash_clear, with kh_clear: the buckets stay.
mrb_hash_clear ==
    /\ Idle
    /\ tab' = [tab EXCEPT !["hash"] = kh_alloc(@.n_buckets)]
    /\ UNCHANGED <<hh, i, put, j>>

\* mrb_hash_dup
DupStart ==
    /\ Idle
    /\ tab' = [tab EXCEPT !["dup"] = Blank]
    /\ j' = 0
    /\ UNCHANGED <<hh, i, put>>

\* Slip: keys are numbered as they are met.
DupNextAsNew ==
    /\ put = NoPut /\ j # -1 /\ j < tab["hash"].n_buckets
    /\ LET e == tab["hash"].at[j] IN
       put' = IF exist(tab["hash"], j) THEN Put("dup", e.key, e.v, -1) ELSE NoPut
    /\ j' = j + 1
    /\ UNCHANGED <<tab, hh, i>>

DupNext ==
    /\ put = NoPut /\ j # -1 /\ j < tab["hash"].n_buckets
    /\ LET e == tab["hash"].at[j] IN
       put' = IF exist(tab["hash"], j) THEN Put("dup", e.key, e.v, e.n) ELSE NoPut
    /\ j' = j + 1
    /\ UNCHANGED <<tab, hh, i>>

\* The copy goes to the program, and with it out of this model.
DupEnd ==
    /\ put = NoPut /\ j = tab["hash"].n_buckets
    /\ tab' = [tab EXCEPT !["dup"] = Blank]
    /\ j' = -1
    /\ UNCHANGED <<hh, i, put>>

Next ==
    \/ Grow \/ Relocate \/ Grown \/ PutDone
    \/ mrb_hash_shift \/ mrb_hash_clear \/ DupStart \/ DupNext \/ DupEnd
    \/ \E k \in Key : mrb_hash_delete_key(k) \/ \E v \in Val : mrb_hash_set(k, v)

Spec == Init /\ [][Next]_vars

-----------------------------------------------------------------------------
(* Properties. *)

Tables == {tab["hash"], tab["dup"], hh}

\* A key that is in a table is found in the bucket that has it, whatever was
\* deleted, stored over a deleted entry or moved by a rebuilding since.
EveryKeyIsFound == \A h \in Tables : \A b \in Entries(h) : kh_get(h, h.at[b].key) = b

\* The loops of kh_get and kh_put come to an end for every key, in the table
\* that is being rebuilt too: there is always an empty bucket to stop at.
EverySearchEnds == \A h \in Tables : \A k \in Key : Stops(h, k) # {}

\* The numbers of the keys are 0, 1, ..., size - 1: mrb_hash_keys writes
\* each key to the place its number names in an array of size places.
OrderIsDense ==
    LET h == tab["hash"] IN
    /\ \A b \in Entries(h) : h.at[b].n \in 0..(h.size - 1)
    /\ \A n \in 0..(h.size - 1) : \E b \in Entries(h) : h.at[b].n = n
    /\ \A b, c \in Entries(h) : h.at[b].n = h.at[c].n => b = c

\* A rebuilding never has to begin another one: the table under construction
\* has room for all that is left to relocate.
RebuildFits == i # -1 => ~Full(hh)

\* mrb_hash_keys and mrb_hash_values, side by side.
At(h, n) == CHOOSE b \in Entries(h) : h.at[b].n = n
PairsOf(h) == [n \in 1..h.size |-> LET e == h.at[At(h, n - 1)] IN <<e.key, e.v>>]

\* A copy has the keys and values of the original in the same order.
DupIsFaithful ==
    put = NoPut /\ j = tab["hash"].n_buckets =>
        /\ tab["dup"].size = tab["hash"].size
        /\ PairsOf(tab["dup"]) = PairsOf(tab["hash"])

Map == INSTANCE OrderedMap WITH pairs <- PairsOf(tab["hash"])

\* Storing, deleting, shift and clear do to the sequence of pairs what an
\* ordered map does, and rebuilding and dup leave it alone.
MapSpec == Map!MapSpec

-----------------------------------------------------------------------------
(* The invariant behind them. *)

KeysIn(h) == {h.at[b].key : b \in Entries(h)}
Occupied(h) == {b \in Bucket(h.n_buckets) : ~isempty(h, b)}

\* The way to a key leads over no empty bucket.
OnItsWay(h, b) ==
    \E s \in Bucket(h.n_buckets) :
        /\ Probe(h.n_buckets, h.at[b].key, s) = b
        /\ \A t \in 0..(s - 1) : ~isempty(h, Probe(h.n_buckets, h.at[b].key, t))

Good(h) ==
    /\ TableOK(h)
    /\ \A b \in Entries(h) : OnItsWay(h, b)
    /\ \A b, c \in Entries(h) : h.at[b].key = h.at[c].key => b = c
    /\ h.size = Cardinality(KeysIn(h))
    /\ h.n_occupied = Cardinality(Occupied(h))
    /\ h.n_occupied <= UpperBound(h.n_buckets)

\* g has the entries of the first m buckets of h, and no others.
Copied(g, h, m) ==
    /\ \A b \in Entries(h) : b < m => \E c \in Entries(g) : g.at[c] = h.at[b]
    /\ \A c \in Entries(g) : \E b \in Entries(h) : b < m /\ g.at[c] = h.at[b]

Rebuilding ==
    i # -1 =>
        /\ put # NoPut
        /\ hh.n_buckets = 2 * tab[put.to].n_buckets
        /\ i <= tab[put.to].n_buckets /\ hh.n_occupied <= i
        /\ Copied(hh, tab[put.to], i)

Copying ==
    /\ put # NoPut => (put.to = "hash" <=> j = -1) /\ (put.n = -1 <=> j = -1)
    /\ j # -1 =>
          /\ j <= tab["hash"].n_buckets
          /\ put = NoPut => Copied(tab["dup"], tab["hash"], j)
          /\ put # NoPut =>
                /\ j > 0 /\ exist(tab["hash"], j - 1)
                /\ tab["hash"].at[j - 1] = Entry(put.key, put.v, put.n)
                /\ Copied(tab["dup"], tab["hash"], j - 1)

IInv ==
    /\ TypeOK /\ OrderIsDense /\ Rebuilding /\ Copying
    /\ Good(tab["hash"]) /\ Good(tab["dup"]) /\ Good(hh)

=============================================================================
