------------------------- MODULE ManagementProofs -------------------------
(***************************************************************************)
(* Proofs about Management, for any configurations, calls, clients and     *)
(* rules.  IInv is the inductive invariant; its parts say which row_seq is *)
(* in use, what a call has been checked for, and what a client that        *)
(* follows cursors has seen.                                               *)
(***************************************************************************)
EXTENDS Management, FiniteSetTheorems, TLAPS

RowSeqs == 1..MaxRules
Results == {"ok", "runtime"} \cup Domain
Pagings == [state : {"none", "open", "done"}, cursor : Nat,
            listed : Seq(RowSeqs), stable : SUBSET RowSeqs]
USE DEF Pagings

\* The local variables are functions on the clients.
Shapes ==
    /\ DOMAIN call = Clients /\ DOMAIN seq = Clients
    /\ DOMAIN held = Clients /\ DOMAIN written = Clients
    /\ paging \in [Clients -> Pagings]

\* A client is in a call, which has one of the operations of its point.
CallInv ==
    \A p \in Clients : pc[p] # "idle" =>
        /\ call[p] \in Calls
        /\ pc[p] # "admit" => call[p].operation \in Tools
        /\ pc[p] \in {"commit", "flush"} => call[p].operation \in Commands

\* A row_seq that is in a table, or that a transaction has, is given away.
SeqInv ==
    /\ next_seq \in 1..(MaxRules + 1)
    /\ \A s \in RowSeqs : rows[s] # "absent" => s < next_seq
    /\ \A p \in Clients : Open(p) => seq[p] \in RowSeqs /\ seq[p] < next_seq

\* What a call has been checked for was so since it began.
HeldInv ==
    \A p \in Clients :
        /\ pc[p] # "idle" => grants \subseteq held[p]
        /\ pc[p] = "access" => "member" \in held[p]
        /\ pc[p] \in {"validate", "begin", "commit", "flush"} =>
            {"member", Permission(call[p].operation)} \subseteq held[p]

\* A call has changed nothing before it has committed.
WrittenInv == \A p \in Clients : pc[p] \notin {"idle", "flush"} => ~ written[p]

\* The pool is closed when no transaction is open.
PoolInv == plugin = "ended" => \A p \in Clients : pc[p] # "commit"

\* The pages so far have no rule twice; up to the cursor no rule is missing
\* that was there all the time, and the last page has the rest of them.
PageInv(p) ==
    /\ IsInjective(paging[p].listed)
    /\ paging[p].state = "none" => paging[p] = NoPaging
    /\ paging[p].state = "open" =>
        /\ call[p].operation = "list_rules"
        /\ paging[p].stable \subseteq Matching(call[p].enabled, rows)
        /\ \A s \in ToSet(paging[p].listed) : s <= paging[p].cursor
        /\ \A s \in paging[p].stable :
            s <= paging[p].cursor => s \in ToSet(paging[p].listed)
    /\ paging[p].state = "done" =>
        /\ pc[p] = "idle"
        /\ paging[p].stable \subseteq ToSet(paging[p].listed)

IInv ==
    /\ TypeOK /\ Shapes
    /\ CallInv /\ SeqInv
    /\ HeldInv /\ WrittenInv /\ RejectionHasNoEffect /\ PoolInv
    /\ \A p \in Clients : PageInv(p)

---------------------------------------------------------------------------
(* Lemmas on pages.                                                        *)

\* The elements of a finite set of numbers have the ranks from one to its size.
LEMMA Ranks ==
    ASSUME NEW m \in Nat, NEW S \in SUBSET (1..m),
           NEW rank, rank = [s \in S |-> Cardinality({t \in S : t <= s})]
    PROVE  /\ IsFiniteSet(S) /\ Cardinality(S) \in Nat
           /\ \A s \in S : rank[s] \in 1..Cardinality(S)
           /\ \A s, t \in S : s < t => rank[s] < rank[t]
           /\ \A k \in 1..Cardinality(S) : \E s \in S : rank[s] = k
<1> DEFINE Upto(s) == {t \in S : t <= s}
<1>1. IsFiniteSet(S) /\ Cardinality(S) \in Nat
    BY FS_Interval, FS_Subset, FS_CardinalityType, 1 \in Int, m \in Int
<1>2. \A s \in S : IsFiniteSet(Upto(s)) /\ Cardinality(Upto(s)) \in Nat
                   /\ Cardinality(Upto(s)) <= Cardinality(S)
    <2>1. ASSUME NEW s \in S
          PROVE  IsFiniteSet(Upto(s)) /\ Cardinality(Upto(s)) <= Cardinality(S)
        BY <1>1, FS_Subset, Upto(s) \in SUBSET S
    <2>2. ASSUME NEW s \in S PROVE Cardinality(Upto(s)) \in Nat
        BY <2>1, FS_CardinalityType
    <2> QED
        BY <2>1, <2>2
<1>3. \A s \in S : Cardinality(Upto(s)) # 0
    <2>1. ASSUME NEW s \in S PROVE s \in Upto(s)
        OBVIOUS
    <2> QED
        BY <1>2, <2>1, FS_EmptySet
<1>4. ASSUME NEW s \in S, NEW t \in S, s < t
      PROVE  Cardinality(Upto(s)) < Cardinality(Upto(t))
    <2>1. Upto(s) \in SUBSET Upto(t) /\ t \in Upto(t) /\ t \notin Upto(s)
        <3>1. \A u \in S : u \in Int
            OBVIOUS
        <3>2. /\ \A u \in S : u <= s => u <= t
              /\ t <= t /\ ~ t <= s
            BY <1>4, <3>1
        <3> QED
            BY <3>2
    <2>2. Upto(s) # Upto(t)
        BY <2>1
    <2>3. /\ Cardinality(Upto(s)) <= Cardinality(Upto(t))
          /\ Cardinality(Upto(t)) = Cardinality(Upto(s)) => Upto(t) = Upto(s)
        BY <1>2, <2>1, FS_Subset
    <2> HIDE DEF Upto
    <2> QED
        BY <1>2, <2>2, <2>3
<1>5. \A s \in S : rank[s] = Cardinality(Upto(s))
    OBVIOUS
<1> HIDE DEF Upto
<1>6. \A s \in S : rank[s] \in 1..Cardinality(S)
    BY <1>1, <1>2, <1>3, <1>5
<1>7. \A s, t \in S : s < t => rank[s] < rank[t]
    BY <1>4, <1>5
<1>8. rank \in Injection(S, 1..Cardinality(S))
    <2>1. rank \in [S -> 1..Cardinality(S)]
        BY <1>6
    <2>2. ASSUME NEW s \in S, NEW t \in S, rank[s] = rank[t]
          PROVE  s = t
        <3>1. s \in Int /\ t \in Int /\ ~ (s < t) /\ ~ (t < s)
            <4>1. rank[s] \in Int /\ rank[t] \in Int
                BY <1>1, <1>6
            <4> QED
                BY <1>7, <2>2, <4>1
        <3> QED
            BY <3>1
    <2> QED
        BY <2>1, <2>2 DEF Injection, IsInjective
<1>9. /\ IsFiniteSet(1..Cardinality(S))
      /\ Cardinality(1..Cardinality(S)) = Cardinality(S)
    BY <1>1, FS_Interval
<1>10. rank \in Surjection(S, 1..Cardinality(S))
    BY <1>8, <1>9, FS_Injection
<1> QED
    BY <1>1, <1>6, <1>7, <1>10 DEF Surjection

\* A page has the first rows after the cursor, in their order: all of them, or
\* all up to the last row of the page.
LEMMA PageFacts ==
    ASSUME TypeOK, NEW p
    PROVE  /\ Page(p) \in Seq(RowSeqs)
           /\ Len(Page(p)) \in Nat
           /\ DOMAIN Page(p) = 1..Len(Page(p))
           /\ \A i \in DOMAIN Page(p) : Page(p)[i] \in PageRows(p)
           /\ \A i, j \in DOMAIN Page(p) : i < j => Page(p)[i] < Page(p)[j]
           /\ Cardinality(PageRows(p)) > PageLimit =>
                /\ Len(Page(p)) = PageLimit
                /\ \A s \in PageRows(p) :
                    s <= Page(p)[PageLimit] => \E i \in DOMAIN Page(p) : Page(p)[i] = s
           /\ ~ Cardinality(PageRows(p)) > PageLimit =>
                \A s \in PageRows(p) : \E i \in DOMAIN Page(p) : Page(p)[i] = s
<1> DEFINE S == PageRows(p)
           rank == [s \in S |-> Cardinality({t \in S : t <= s})]
           n == IF Cardinality(S) > PageLimit THEN PageLimit ELSE Cardinality(S)
<1>1. S \in SUBSET (1..MaxRules) /\ MaxRules \in Nat /\ PageLimit \in Nat \ {0}
    BY ManagementAssumption DEF TypeOK, PageRows, Matching
<1>2. \A s \in S : rank[s] = Place(p, s)
    BY DEF Place
<1>3. /\ Cardinality(S) \in Nat
      /\ \A s \in S : rank[s] \in 1..Cardinality(S)
      /\ \A s, t \in S : s < t => rank[s] < rank[t]
      /\ \A k \in 1..Cardinality(S) : \E s \in S : rank[s] = k
    <2> HIDE DEF S
    <2> QED
        BY <1>1, Ranks
<1>4. Page(p) = [k \in 1..n |-> CHOOSE s \in S : Place(p, s) = k]
    BY DEF Page
<1> HIDE DEF S, rank
<1>5. /\ n \in Nat /\ n <= Cardinality(S) /\ n <= PageLimit
      /\ Cardinality(S) > PageLimit => n = PageLimit
      /\ ~ Cardinality(S) > PageLimit => n = Cardinality(S)
    BY <1>1, <1>3
<1> HIDE DEF n
<1>6. \A k \in 1..n : Page(p)[k] \in S /\ rank[Page(p)[k]] = k
    <2>1. ASSUME NEW k \in 1..n
          PROVE  Page(p)[k] \in S /\ rank[Page(p)[k]] = k
        <3>1. \E s \in S : Place(p, s) = k
            BY <1>2, <1>3, <1>5
        <3>2. Page(p)[k] \in S /\ Place(p, Page(p)[k]) = k
            BY <1>4, <3>1
        <3> QED
            BY <1>2, <3>2
    <2> QED
        BY <2>1
<1>7. /\ Page(p) \in [1..n -> RowSeqs]
      /\ DOMAIN Page(p) = 1..n
    BY <1>1, <1>4, <1>6 DEF RowSeqs
<1>8. Page(p) \in Seq(RowSeqs) /\ Len(Page(p)) = n
    BY <1>5, <1>7
<1>9. \A s, t \in S : s \in Int /\ t \in Int /\ rank[s] \in Int
                      /\ (rank[s] = rank[t] => s = t) /\ (s <= t => rank[s] <= rank[t])
    BY <1>1, <1>3
<1>10. ASSUME NEW i \in 1..n, NEW j \in 1..n, i < j
       PROVE  Page(p)[i] < Page(p)[j]
    <2>1. /\ Page(p)[i] \in S /\ Page(p)[j] \in S
          /\ rank[Page(p)[i]] = i /\ rank[Page(p)[j]] = j
        BY <1>6
    <2>2. ~ Page(p)[j] <= Page(p)[i]
        BY <1>9, <1>10, <2>1
    <2> QED
        BY <1>9, <2>1, <2>2
<1>11. \A s \in S : rank[s] <= n => \E i \in 1..n : Page(p)[i] = s
    <2>1. ASSUME NEW s \in S, rank[s] <= n
          PROVE  rank[s] \in 1..n /\ Page(p)[rank[s]] = s
        <3>1. rank[s] \in 1..n
            BY <1>3, <1>5, <2>1
        <3> QED
            BY <1>6, <1>9, <3>1
    <2> QED
        BY <2>1
<1>12. ASSUME Cardinality(S) > PageLimit, NEW s \in S, s <= Page(p)[PageLimit]
       PROVE  rank[s] <= n
    <2>1. n = PageLimit /\ Page(p)[n] \in S /\ rank[Page(p)[n]] = n
        BY <1>1, <1>5, <1>6, <1>12
    <2> QED
        BY <1>9, <1>12, <2>1
<1>13. ~ Cardinality(S) > PageLimit => \A s \in S : rank[s] <= n
    BY <1>3, <1>5
<1>14. /\ Cardinality(S) > PageLimit =>
            /\ Len(Page(p)) = PageLimit
            /\ \A s \in S : s <= Page(p)[PageLimit] => \E i \in 1..n : Page(p)[i] = s
       /\ ~ Cardinality(S) > PageLimit => \A s \in S : \E i \in 1..n : Page(p)[i] = s
    BY <1>5, <1>8, <1>11, <1>12, <1>13
<1> QED
    BY <1>5, <1>6, <1>7, <1>8, <1>10, <1>14 DEF S

---------------------------------------------------------------------------
(* What a list_rules has shown.                                            *)

\* A client whose paging stays as it is, or begins again.
LEMMA PagesKept ==
    ASSUME IInv, NEW p \in Clients, rows' = rows, call' = call,
           \A o \in Clients : paging'[o] = paging[o] \/ paging'[o] = NoPaging,
           \A o \in Clients : pc[o] = "idle" => pc'[o] = "idle"
    PROVE  \A o \in Clients : PageInv(o)'
<1> SUFFICES ASSUME NEW o \in Clients PROVE PageInv(o)'
    OBVIOUS
<1>1. PageInv(o) /\ paging'[o].state \in {"none", "open", "done"} \cup {paging[o].state}
    BY DEF IInv, NoPaging
<1>2. CASE paging'[o] = NoPaging
    BY <1>2 DEF PageInv, NoPaging, IsInjective
<1>3. CASE paging'[o] = paging[o]
    BY <1>1, <1>3 DEF PageInv, Matching
<1> QED
    BY <1>2, <1>3

\* A command that commits: what is not shown any more is not stable.
LEMMA PagesApplied ==
    ASSUME IInv, NEW p \in Clients, Apply(p), call' = call,
           \A o \in Clients : pc[o] = "idle" => pc'[o] = "idle"
    PROVE  /\ paging' \in [Clients -> Pagings]
           /\ \A o \in Clients : PageInv(o)'
<1>1. ASSUME NEW o \in Clients
      PROVE  /\ paging'[o].state = paging[o].state /\ paging'[o].cursor = paging[o].cursor
             /\ paging'[o].listed = paging[o].listed
             /\ paging'[o].stable = {s \in paging[o].stable : s \in Matching(call[o].enabled, rows')}
             /\ paging'[o] \in Pagings
             /\ paging[o] = NoPaging => paging'[o] = NoPaging
    <2>1. paging'[o] = [paging[o] EXCEPT
            !.stable = {s \in paging[o].stable : s \in Matching(call[o].enabled, rows')}]
        BY DEF Apply
    <2>2. paging[o] \in Pagings
        BY DEF IInv, Shapes
    <2> DEFINE kept == {s \in paging[o].stable : s \in Matching(call[o].enabled, rows')}
    <2>3. kept \in SUBSET RowSeqs
        BY <2>2
    <2>4. paging[o] = NoPaging => kept = {}
        BY DEF NoPaging
    <2> HIDE DEF kept
    <2>5. paging'[o] = [paging[o] EXCEPT !.stable = kept]
        BY <2>1 DEF kept
    <2>6. paging[o] = NoPaging => paging'[o] = NoPaging
        BY <2>4, <2>5 DEF NoPaging
    <2> QED
        BY <2>2, <2>3, <2>5, <2>6 DEF kept
<1>2. paging' \in [Clients -> Pagings]
    <2>1. DOMAIN paging' = Clients /\ paging' = [o \in Clients |-> paging'[o]]
        BY DEF Apply
    <2> QED
        BY <1>1, <2>1
<1>3. ASSUME NEW o \in Clients
      PROVE  PageInv(o)'
    <2>1. PageInv(o)
        BY DEF IInv
    <2>2. /\ IsInjective(paging[o].listed)'
          /\ paging'[o].state = "none" => paging'[o] = NoPaging
        BY <1>1, <2>1 DEF PageInv, IsInjective
    <2>3. paging'[o].state = "open" =>
            /\ call'[o].operation = "list_rules"
            /\ paging'[o].stable \subseteq Matching(call'[o].enabled, rows')
            /\ \A s \in ToSet(paging'[o].listed) : s <= paging'[o].cursor
            /\ \A s \in paging'[o].stable :
                s <= paging'[o].cursor => s \in ToSet(paging'[o].listed)
        BY <1>1, <2>1 DEF PageInv
    <2>4. paging'[o].state = "done" =>
            /\ pc'[o] = "idle"
            /\ paging'[o].stable \subseteq ToSet(paging'[o].listed)
        BY <1>1, <2>1 DEF PageInv
    <2> QED
        BY <2>2, <2>3, <2>4 DEF PageInv
<1> QED
    BY <1>2, <1>3

\* The next page of a list_rules: its rows are all beyond the cursor, and with
\* them no rule up to the new cursor, or of all, is missing.
LEMMA PagesListed ==
    ASSUME IInv, NEW p \in Clients, ListRules(p), pc[p] = "begin",
           call[p].operation = "list_rules", rows' = rows, call' = call,
           pc' = [pc EXCEPT ![p] = "idle"]
    PROVE  /\ paging' \in [Clients -> Pagings]
           /\ \A o \in Clients : PageInv(o)'
<1> DEFINE old == paging[p].listed
           new == Page(p)
           all == old \o new
           more == Cardinality(PageRows(p)) > PageLimit
           rest == IF paging[p].state = "none" THEN Matching(call[p].enabled, rows)
                   ELSE paging[p].stable
           cursor == IF more THEN Last(new) ELSE 0
           next == [state |-> IF more THEN "open" ELSE "done", cursor |-> cursor,
                    listed |-> all, stable |-> rest]
<1>1. /\ paging[p] \in Pagings
      /\ PageInv(p) /\ paging[p].state \in {"none", "open"} /\ DOMAIN paging = Clients
    BY DEF IInv, Shapes, PageInv
<1>2. paging' = [paging EXCEPT ![p] = next]
    BY DEF ListRules
<1>3. /\ new \in Seq(RowSeqs) /\ Len(new) \in Nat /\ DOMAIN new = 1..Len(new)
      /\ \A i \in DOMAIN new : new[i] \in PageRows(p)
      /\ \A i, j \in DOMAIN new : i < j => new[i] < new[j]
      /\ more => /\ Len(new) = PageLimit
                 /\ \A s \in PageRows(p) :
                    s <= new[PageLimit] => \E i \in DOMAIN new : new[i] = s
      /\ ~ more => \A s \in PageRows(p) : \E i \in DOMAIN new : new[i] = s
    BY PageFacts DEF IInv
<1>4. /\ \A s \in ToSet(old) : s <= paging[p].cursor
      /\ IsInjective(old) /\ rest \in SUBSET RowSeqs
      /\ rest \subseteq Matching(call[p].enabled, rows)
      /\ \A s \in rest : s <= paging[p].cursor => s \in ToSet(old)
    <2>1. CASE paging[p].state = "none"
        <3>1. paging[p].listed = <<>> /\ paging[p].cursor = 0 /\ ToSet(old) = {}
            BY <1>1, <2>1 DEF PageInv, NoPaging, ToSet
        <3>2. rest \in SUBSET RowSeqs
            BY <2>1 DEF IInv, TypeOK, Matching, RowSeqs
        <3> QED
            BY <1>1, <2>1, <3>1, <3>2 DEF PageInv, RowSeqs
    <2>2. CASE paging[p].state = "open"
        BY <1>1, <2>2 DEF PageInv
    <2> QED
        BY <1>1, <2>1, <2>2
<1>5. \A s : s \in PageRows(p) <=> s \in Matching(call[p].enabled, rows) /\ s > paging[p].cursor
    BY DEF PageRows, AfterCursor
<1>6. /\ PageLimit \in Nat \ {0} /\ PageRows(p) \in SUBSET RowSeqs /\ RowSeqs \in SUBSET Nat
      /\ paging[p].cursor \in Nat
    BY <1>1, ManagementAssumption DEF IInv, TypeOK, PageRows, Matching, RowSeqs
<1>7. /\ old \in Seq(RowSeqs) /\ all \in Seq(RowSeqs) /\ Len(old) \in Nat
      /\ Len(all) = Len(old) + Len(new)
      /\ DOMAIN old = 1..Len(old) /\ DOMAIN all = 1..Len(all)
      /\ \A i \in 1..Len(all) : all[i] = IF i <= Len(old) THEN old[i] ELSE new[i - Len(old)]
    <2>1. old \in Seq(RowSeqs)
        BY <1>1
    <2> HIDE DEF old, new
    <2> QED
        BY <1>3, <2>1 DEF all
<1>8. more => /\ Last(new) = new[PageLimit] /\ Last(new) \in PageRows(p)
              /\ cursor = Last(new)
              /\ \A i \in DOMAIN new : new[i] <= Last(new)
    <2>1. ASSUME more
          PROVE  Last(new) = new[PageLimit] /\ PageLimit \in DOMAIN new
        BY <1>3, <1>6, <2>1 DEF Last
    <2>2. ASSUME more, NEW i \in DOMAIN new
          PROVE  new[i] <= new[PageLimit]
        <3> HIDE DEF new, more
        <3>1. new[i] \in Nat /\ new[PageLimit] \in Nat /\ PageLimit \in DOMAIN new
            BY <1>3, <1>6, <2>1, <2>2
        <3>2. i < PageLimit \/ i = PageLimit
            BY <1>3, <1>6, <2>2
        <3> QED
            BY <1>3, <3>1, <3>2
    <2> QED
        BY <1>3, <2>1, <2>2
<1> HIDE DEF old, new, all, more, rest, cursor
<1>9. /\ \A i \in 1..Len(new) : new[i] \in Nat
      /\ \A i \in 1..Len(old) : old[i] \in Nat
      /\ \A s \in ToSet(old) : s \in Nat
    <2>1. \A i \in 1..Len(old) : old[i] \in RowSeqs
        BY <1>7
    <2>2. \A i \in 1..Len(new) : new[i] \in RowSeqs
        BY <1>3
    <2> QED
        BY <1>6, <1>7, <2>1, <2>2 DEF ToSet
<1>10. cursor \in Nat
    BY <1>6, <1>8 DEF cursor
<1>11. next \in Pagings
    BY <1>4, <1>7, <1>10
<1>12. IsInjective(all)
    <2>1. \A i \in 1..Len(old) : old[i] \in ToSet(old)
        BY <1>7 DEF ToSet
    <2>2. \A i \in 1..Len(old), j \in 1..Len(new) : old[i] # new[j]
        <3>1. ASSUME NEW i \in 1..Len(old), NEW j \in 1..Len(new)
              PROVE  old[i] <= paging[p].cursor /\ new[j] > paging[p].cursor
            BY <1>3, <1>4, <1>5, <2>1
        <3> QED
            BY <1>6, <1>9, <3>1
    <2>3. \A i, j \in 1..Len(new) : new[i] = new[j] => i = j
        <3>1. \A i, j \in 1..Len(new) : i < j => new[i] < new[j]
            BY <1>3
        <3> QED
            BY <1>9, <3>1
    <2>4. \A i, j \in 1..Len(old) : old[i] = old[j] => i = j
        BY <1>4, <1>7 DEF IsInjective
    <2>5. \A i \in 1..Len(all) : ~ i <= Len(old) => i - Len(old) \in 1..Len(new)
        BY <1>3, <1>7
    <2>6. \A i, j \in 1..Len(all) : all[i] = all[j] => i = j
        BY <1>3, <1>7, <2>2, <2>3, <2>4, <2>5
    <2> QED
        BY <1>7, <2>6 DEF IsInjective
<1>13. \A s : s \in ToSet(all) <=> s \in ToSet(old) \/ \E i \in DOMAIN new : new[i] = s
    <2>1. \A i \in DOMAIN old : i \in DOMAIN all /\ all[i] = old[i]
        BY <1>3, <1>7
    <2>2. \A i \in DOMAIN new : i + Len(old) \in DOMAIN all /\ all[i + Len(old)] = new[i]
        <3>1. ASSUME NEW i \in 1..Len(new)
              PROVE  i + Len(old) \in 1..Len(all) /\ all[i + Len(old)] = new[i]
            <4>1. /\ i + Len(old) \in 1..Len(all) /\ ~ i + Len(old) <= Len(old)
                  /\ i + Len(old) - Len(old) = i
                BY <1>3, <1>7
            <4>2. all[i + Len(old)] = new[i + Len(old) - Len(old)]
                BY <1>7, <4>1
            <4> QED
                BY <4>1, <4>2
        <3> QED
            BY <1>3, <1>7, <3>1
    <2>3. \A i \in DOMAIN all : \/ i \in DOMAIN old /\ all[i] = old[i]
                                \/ i - Len(old) \in DOMAIN new /\ all[i] = new[i - Len(old)]
        BY <1>3, <1>7
    <2> QED
        BY <2>1, <2>2, <2>3 DEF ToSet
<1>14. ASSUME more
       PROVE  /\ \A s \in ToSet(all) : s <= cursor
              /\ \A s \in rest : s <= cursor => s \in ToSet(all)
    <2>1. /\ cursor \in PageRows(p) /\ cursor > paging[p].cursor /\ cursor = new[PageLimit]
          /\ \A i \in DOMAIN new : new[i] <= cursor
        BY <1>5, <1>8, <1>14
    <2>2. \A s \in ToSet(old) : s <= cursor
        <3>1. cursor \in Nat /\ paging[p].cursor \in Nat
            BY <1>6, <1>10
        <3>2. \A s \in ToSet(old) : s \in Nat /\ s <= paging[p].cursor
            BY <1>4, <1>9
        <3> QED
            BY <2>1, <3>1, <3>2
    <2>3. \A s \in ToSet(all) : s <= cursor
        BY <1>13, <2>1, <2>2
    <2>4. ASSUME NEW s \in rest, s <= cursor
          PROVE  s \in ToSet(all)
        <3>1. CASE s <= paging[p].cursor
            BY <1>4, <1>13, <3>1
        <3>2. CASE ~ s <= paging[p].cursor
            <4>1. s \in Nat
                BY <1>4, <1>6
            <4>2. s \in PageRows(p)
                BY <1>4, <1>5, <1>6, <3>2, <4>1
            <4> QED
                BY <1>3, <1>13, <1>14, <2>1, <2>4, <4>2
        <3> QED
            BY <3>1, <3>2
    <2> QED
        BY <2>3, <2>4
<1>15. ASSUME ~ more
       PROVE  rest \subseteq ToSet(all)
    <2> SUFFICES ASSUME NEW s \in rest PROVE s \in ToSet(all)
        OBVIOUS
    <2>1. CASE s <= paging[p].cursor
        BY <1>4, <1>13, <2>1
    <2>2. CASE ~ s <= paging[p].cursor
        <3>1. s \in PageRows(p)
            BY <1>4, <1>5, <1>6, <2>2
        <3> QED
            BY <1>3, <1>13, <1>15, <3>1
    <2> QED
        BY <2>1, <2>2
<1>16. paging'[p] = next /\ \A o \in Clients \ {p} : paging'[o] = paging[o]
    BY <1>1, <1>2
<1>17. /\ paging'[p].state = (IF more THEN "open" ELSE "done")
       /\ paging'[p].cursor = cursor /\ paging'[p].listed = all /\ paging'[p].stable = rest
    BY <1>16
<1> HIDE DEF next
<1>18. PageInv(p)'
    <2>1. pc'[p] = "idle"
        BY DEF IInv, TypeOK
    <2>2. paging'[p].stable \subseteq Matching(call'[p].enabled, rows')
        BY <1>4, <1>17
    <2> QED
        BY <1>12, <1>14, <1>15, <1>17, <2>1, <2>2 DEF PageInv
<1>19. ASSUME NEW o \in Clients \ {p}
       PROVE  PageInv(o)'
    <2>1. PageInv(o) /\ paging'[o] = paging[o] /\ pc'[o] = pc[o]
        BY <1>16 DEF IInv, TypeOK
    <2> QED
        BY <2>1 DEF PageInv, Matching
<1>20. paging' \in [Clients -> Pagings]
    BY <1>2, <1>11 DEF IInv, Shapes
<1> QED
    BY <1>18, <1>19, <1>20

---------------------------------------------------------------------------
(* The steps of a call.                                                    *)

\* What an answer of the tools tells of the result.
LEMMA ToolAnswers ==
    ASSUME NEW r \in Results
    PROVE  /\ ToolAnswer(r) \in {"ok", "runtime"} \cup Domain \cup ToolErrors
           /\ ToolAnswer(r) \in {"none", "ok", "runtime"} <=> r \in {"ok", "runtime"}
           /\ r # "none"
BY DEF Results, Domain, ToolErrors, ToolAnswer

\* The bounds hold, and the rows that a step adds are those of its create_rule.
BoundsOK == calls \in 0..MaxCalls /\ granted \in 0..MaxGrants /\ faults \in 0..MaxFaults

TableStep(p) ==
    /\ rows' \in [RowSeqs -> {"absent", "enabled", "disabled", "deleted"}]
    /\ \A s \in RowSeqs : rows'[s] # "absent" => rows[s] # "absent" \/ (Open(p) /\ s = seq[p])
    /\ UNCHANGED next_seq

PagesStep ==
    /\ paging' \in [Clients -> Pagings]
    /\ \A o \in Clients : PageInv(o)'

\* The tables after the step of a client that has then no transaction open.
LEMMA TableKept ==
    ASSUME IInv, NEW p \in Clients, TableStep(p),
           \A o \in Clients \ {p} : pc'[o] = pc[o] /\ call'[o] = call[o] /\ seq'[o] = seq[o],
           pc'[p] # "commit"
    PROVE  /\ SeqInv'
           /\ \A o \in Clients : Open(o)' =>
                /\ rows'[seq'[o]] = "absent"
                /\ \A q \in Clients : q # o /\ Open(q)' => seq'[q] # seq'[o]
<1>1. \A o \in Clients : Open(o)' => o # p /\ Open(o)
    BY DEF Open
<1>2. /\ next_seq \in 1..(MaxRules + 1)
      /\ \A s \in RowSeqs : rows[s] # "absent" => s < next_seq
      /\ \A o \in Clients : Open(o) =>
            /\ seq[o] \in RowSeqs /\ seq[o] < next_seq
            /\ rows[seq[o]] = "absent"
            /\ \A q \in Clients : q # o /\ Open(q) => seq[q] # seq[o]
    BY DEF IInv, SeqInv, TypeOK
<1>3. /\ \A s \in RowSeqs : rows'[s] # "absent" => rows[s] # "absent" \/ (Open(p) /\ s = seq[p])
      /\ next_seq' = next_seq
    BY DEF TableStep
<1>4. SeqInv'
    BY <1>1, <1>2, <1>3 DEF SeqInv
<1>5. ASSUME NEW o \in Clients, Open(o)'
      PROVE  rows'[seq'[o]] = "absent"
    <2>1. seq'[o] = seq[o] /\ seq[o] \in RowSeqs /\ rows[seq[o]] = "absent"
          /\ ~ (Open(p) /\ seq[o] = seq[p])
        BY <1>1, <1>2, <1>5
    <2> QED
        BY <1>3, <2>1
<1>6. ASSUME NEW o \in Clients, Open(o)', NEW q \in Clients, q # o, Open(q)'
      PROVE  seq'[q] # seq'[o]
    BY <1>1, <1>2, <1>6
<1> QED
    BY <1>4, <1>5, <1>6

\* A call that ends, with a rejection only if it has changed nothing.
LEMMA Ended ==
    ASSUME IInv, NEW p \in Clients, NEW r \in Results, pc[p] # "idle", Answer(p, r),
           UNCHANGED <<config, plugin, grants>>, BoundsOK', TableStep(p), PagesStep,
           DOMAIN written' = Clients, written'[p] \in BOOLEAN,
           written'[p] => r \in {"ok", "runtime"},
           \A o \in Clients \ {p} : written'[o] = written[o]
    PROVE  IInv'
<1>1. /\ pc \in [Clients -> {"idle"} \cup Working]
      /\ answer \in [Clients -> {"none", "ok", "runtime"} \cup Domain \cup ToolErrors]
      /\ DOMAIN seq = Clients /\ DOMAIN held = Clients /\ DOMAIN call = Clients
    BY DEF IInv, TypeOK, Shapes
<1>2. /\ pc' = [pc EXCEPT ![p] = "idle"] /\ call' = call
      /\ answer' = [answer EXCEPT ![p] = IF call[p].via = "tool" THEN ToolAnswer(r) ELSE r]
      /\ seq' = [seq EXCEPT ![p] = 0] /\ held' = [held EXCEPT ![p] = {}]
    BY DEF Answer, Goto
<1>3. /\ pc'[p] = "idle" /\ held'[p] = {}
      /\ \A o \in Clients \ {p} :
            /\ pc'[o] = pc[o] /\ call'[o] = call[o] /\ seq'[o] = seq[o]
            /\ held'[o] = held[o] /\ answer'[o] = answer[o]
    BY <1>1, <1>2
<1>4. /\ answer'[p] \in {"none", "ok", "runtime"} \cup Domain \cup ToolErrors
      /\ answer'[p] \in {"none", "ok", "runtime"} <=> r \in {"ok", "runtime"}
    BY <1>1, <1>2, ToolAnswers DEF Results, Domain
<1>5. /\ SeqInv'
      /\ \A o \in Clients : Open(o)' =>
                /\ rows'[seq'[o]] = "absent"
                /\ \A q \in Clients : q # o /\ Open(q)' => seq'[q] # seq'[o]
    BY <1>3, TableKept
<1>6. TypeOK'
    <2>1. /\ pc' \in [Clients -> {"idle"} \cup Working]
          /\ answer' \in [Clients -> {"none", "ok", "runtime"} \cup Domain \cup ToolErrors]
        BY <1>1, <1>2, <1>4
    <2>2. \A o \in Clients : held'[o] \subseteq Grants /\ written'[o] \in BOOLEAN
        BY <1>3 DEF IInv, TypeOK
    <2>3. /\ config' \in Configs /\ grants' \subseteq Grants
          /\ plugin' \in {"loaded", "refused", "inactive", "active", "closing", "ended"}
        BY DEF IInv, TypeOK
    <2> QED
        BY <1>5, <2>1, <2>2, <2>3 DEF TypeOK, BoundsOK, TableStep, RowSeqs
<1>7. Shapes'
    BY <1>1, <1>2 DEF Shapes, PagesStep
<1>8. CallInv'
    BY <1>3 DEF IInv, CallInv
<1>9. HeldInv'
    BY <1>3 DEF IInv, HeldInv
<1>10. WrittenInv'
    BY <1>3 DEF IInv, WrittenInv
<1>11. RejectionHasNoEffect'
    <2>1. ASSUME NEW o \in Clients, pc'[o] = "idle", answer'[o] \notin {"none", "ok", "runtime"}
          PROVE  ~ written'[o]
        BY <1>3, <1>4, <2>1 DEF IInv, RejectionHasNoEffect
    <2> QED
        BY <2>1 DEF RejectionHasNoEffect
<1>12. PoolInv'
    BY <1>3 DEF IInv, PoolInv
<1> QED
    BY <1>5, <1>6, <1>7, <1>8, <1>9, <1>10, <1>11, <1>12 DEF IInv, PagesStep

\* A call that goes on, to a point that it has been checked for.
LEMMA Moved ==
    ASSUME IInv, NEW p \in Clients, NEW label \in Working, pc[p] # "idle", Goto(p, label),
           UNCHANGED <<config, plugin, grants, call, held, answer>>, BoundsOK', PagesStep,
           label # "commit" => TableStep(p) /\ seq' = seq,
           label = "commit" =>
                /\ rows' = rows /\ DOMAIN seq' = Clients /\ plugin = "active"
                /\ \A o \in Clients \ {p} : seq'[o] = seq[o]
                /\ SeqInv'
                /\ call[p].operation = "create_rule" => seq'[p] = next_seq /\ next_seq \in RowSeqs,
           call[p].operation \in Tools, label # "admit",
           label \in {"commit", "flush"} => call[p].operation \in Commands,
           label = "access" => "member" \in held[p],
           label \in {"validate", "begin", "commit", "flush"} =>
                {"member", Permission(call[p].operation)} \subseteq held[p],
           DOMAIN written' = Clients, written'[p] \in BOOLEAN,
           label # "flush" => ~ written'[p],
           \A o \in Clients \ {p} : written'[o] = written[o]
    PROVE  IInv'
<1>1. /\ pc \in [Clients -> {"idle"} \cup Working]
      /\ DOMAIN held = Clients /\ DOMAIN call = Clients /\ DOMAIN seq = Clients
    BY DEF IInv, TypeOK, Shapes
<1>2. /\ pc' \in [Clients -> {"idle"} \cup Working]
      /\ pc'[p] = label /\ \A o \in Clients \ {p} : pc'[o] = pc[o]
      /\ label # "idle"
    BY <1>1 DEF Goto, Working
<1>3. /\ SeqInv' /\ rows' \in [1..MaxRules -> {"absent", "enabled", "disabled", "deleted"}]
      /\ \A o \in Clients : Open(o)' =>
                /\ rows'[seq'[o]] = "absent"
                /\ \A q \in Clients : q # o /\ Open(q)' => seq'[q] # seq'[o]
    <2>1. CASE label # "commit"
        <3>1. \A o \in Clients \ {p} : pc'[o] = pc[o] /\ call'[o] = call[o] /\ seq'[o] = seq[o]
            BY <1>2, <2>1
        <3>2. TableStep(p) /\ pc'[p] # "commit"
            BY <1>2, <2>1
        <3>3. rows' \in [1..MaxRules -> {"absent", "enabled", "disabled", "deleted"}]
            BY <3>2 DEF TableStep, RowSeqs
        <3> QED
            BY <3>1, <3>2, <3>3, TableKept
    <2>2. CASE label = "commit"
        <3>1. rows' = rows /\ SeqInv'
            BY <2>2
        <3>2. /\ next_seq \in 1..(MaxRules + 1) /\ MaxRules \in Nat
              /\ \A s \in RowSeqs : rows[s] # "absent" => s < next_seq
              /\ \A o \in Clients : Open(o) =>
                    /\ seq[o] \in RowSeqs /\ seq[o] < next_seq
                    /\ rows[seq[o]] = "absent"
                    /\ \A q \in Clients : q # o /\ Open(q) => seq[q] # seq[o]
            BY ManagementAssumption DEF IInv, SeqInv, TypeOK
        <3>3. \A o \in Clients \ {p} : Open(o)' => Open(o) /\ seq'[o] = seq[o]
            BY <1>2, <2>2 DEF Open
        <3>4. Open(p)' => seq'[p] = next_seq /\ next_seq \in RowSeqs
            BY <2>2 DEF Open
        <3>5. Open(p)' => rows[next_seq] = "absent"
            BY <3>2, <3>4
        <3>6. \A o \in Clients \ {p} : Open(o)' => seq'[o] # next_seq
            BY <3>2, <3>3 DEF RowSeqs
        <3>7. ASSUME NEW o \in Clients, Open(o)'
              PROVE  rows'[seq'[o]] = "absent"
            BY <3>1, <3>2, <3>3, <3>4, <3>5, <3>7
        <3>8. ASSUME NEW o \in Clients, Open(o)', NEW q \in Clients, q # o, Open(q)'
              PROVE  seq'[q] # seq'[o]
            BY <3>2, <3>3, <3>4, <3>6, <3>8
        <3> QED
            BY <3>1, <3>7, <3>8 DEF IInv, TypeOK
    <2> QED
        BY <2>1, <2>2
<1>4. TypeOK'
    <2>1. \A o \in Clients : held'[o] \subseteq Grants /\ written'[o] \in BOOLEAN
        BY DEF IInv, TypeOK
    <2>2. /\ config' \in Configs /\ grants' \subseteq Grants
          /\ plugin' \in {"loaded", "refused", "inactive", "active", "closing", "ended"}
          /\ answer' \in [Clients -> {"none", "ok", "runtime"} \cup Domain \cup ToolErrors]
        BY DEF IInv, TypeOK
    <2> QED
        BY <1>2, <1>3, <2>1, <2>2 DEF TypeOK, BoundsOK
<1>5. Shapes'
    BY <1>1 DEF Shapes, PagesStep
<1>6. CallInv'
    BY <1>2 DEF IInv, CallInv
<1>7. HeldInv'
    BY <1>2 DEF IInv, HeldInv
<1>8. WrittenInv'
    BY <1>2 DEF IInv, WrittenInv
<1>9. RejectionHasNoEffect'
    BY <1>2 DEF IInv, RejectionHasNoEffect
<1>10. PoolInv'
    BY <1>2 DEF IInv, PoolInv
<1> QED
    BY <1>3, <1>4, <1>5, <1>6, <1>7, <1>8, <1>9, <1>10 DEF IInv, PagesStep

\* A call that is refused.
LEMMA Refused ==
    ASSUME IInv, NEW p \in Clients, NEW r \in Results, pc[p] \notin {"idle", "flush"},
           Refuse(p, r), UNCHANGED <<config, plugin, grants, rows, next_seq>>, BoundsOK'
    PROVE  IInv'
<1>1. /\ paging' = [paging EXCEPT ![p] = NoPaging] /\ written' = written /\ Answer(p, r)
      /\ DOMAIN paging = Clients /\ ~ written[p] /\ DOMAIN written = Clients
    BY DEF Refuse, IInv, Shapes, WrittenInv
<1>2. NoPaging \in Pagings
    BY DEF NoPaging
<1>3. PagesStep
    <2>1. \A o \in Clients : paging'[o] = paging[o] \/ paging'[o] = NoPaging
        BY <1>1
    <2>2. \A o \in Clients : pc[o] = "idle" => pc'[o] = "idle"
        BY DEF Refuse, Answer, Goto, IInv, TypeOK
    <2>3. \A o \in Clients : PageInv(o)'
        BY <1>1, <2>1, <2>2, PagesKept DEF Answer
    <2> QED
        BY <1>1, <1>2, <2>3 DEF PagesStep, IInv, Shapes
<1>4. TableStep(p)
    BY DEF TableStep, IInv, TypeOK, RowSeqs
<1>5. written'[p] \in BOOLEAN
    BY <1>1 DEF IInv, TypeOK
<1> QED
    BY <1>1, <1>3, <1>4, <1>5, Ended

\* A call that goes on and has changed nothing yet.
LEMMA Passed ==
    ASSUME IInv, NEW p \in Clients, NEW label \in Working \ {"admit", "commit", "flush"},
           pc[p] \notin {"idle", "flush"}, Goto(p, label),
           UNCHANGED <<config, plugin, grants, rows, next_seq, call, seq, held, written, paging, answer>>,
           BoundsOK', call[p].operation \in Tools,
           label = "access" => "member" \in held[p],
           label \in {"validate", "begin"} =>
                {"member", Permission(call[p].operation)} \subseteq held[p]
    PROVE  IInv'
<1>1. PagesStep
    <2>1. \A o \in Clients : pc[o] = "idle" => pc'[o] = "idle"
        BY DEF Goto, IInv, TypeOK
    <2>2. \A o \in Clients : PageInv(o)'
        BY <2>1, PagesKept
    <2> QED
        BY <2>2 DEF PagesStep, IInv, Shapes
<1>2. TableStep(p)
    BY DEF TableStep, IInv, TypeOK, RowSeqs
<1>3. DOMAIN written' = Clients /\ written'[p] \in BOOLEAN /\ ~ written'[p]
    BY DEF IInv, Shapes, TypeOK, WrittenInv
<1> QED
    BY <1>1, <1>2, <1>3, Moved

LEMMA BoundsFacts == ASSUME IInv PROVE /\ BoundsOK
                                       /\ UNCHANGED bounds => BoundsOK'
                                       /\ UNCHANGED <<calls, granted>> /\ (Fault \/ UNCHANGED faults) => BoundsOK'
BY ManagementAssumption DEF IInv, TypeOK, BoundsOK, bounds, Fault

\* Configuration and lifecycle: the pool is closed when no transaction is open.
LEMMA LifecycleStep ==
    ASSUME IInv, Load \/ Activate \/ Deactivate \/ ClosePool
    PROVE  IInv'
<1>1. /\ UNCHANGED <<config, grants, rows, next_seq, pc, call, seq, held, written, answer, paging>>
      /\ UNCHANGED <<calls, granted, faults>>
    BY DEF Load, Activate, Deactivate, ClosePool, client, bounds
<1>2. plugin' \in {"loaded", "refused", "inactive", "active", "closing", "ended"}
    BY DEF Load, Activate, Deactivate, ClosePool
<1>3. plugin' = "ended" => \A p \in Clients : pc[p] # "commit"
    BY DEF Load, Activate, Deactivate, ClosePool, PoolDrained
<1>4. TypeOK' /\ Shapes' /\ CallInv' /\ SeqInv' /\ HeldInv' /\ WrittenInv' /\ RejectionHasNoEffect'
    BY <1>1, <1>2 DEF IInv, TypeOK, Shapes, CallInv, SeqInv, HeldInv, WrittenInv,
        RejectionHasNoEffect, Open
<1>5. PoolInv'
    BY <1>1, <1>3 DEF PoolInv
<1>6. \A p \in Clients : PageInv(p)'
    BY <1>1 DEF IInv, PageInv, Matching
<1> QED
    BY <1>4, <1>5, <1>6 DEF IInv

\* What is given or taken away meanwhile is held too.
LEMMA ChangeGrantsStep == ASSUME IInv, ChangeGrants PROVE IInv'
<1>1. /\ UNCHANGED <<config, plugin, rows, next_seq, pc, call, seq, written, answer, paging, calls, faults>>
      /\ granted' \in 0..MaxGrants /\ grants' \subseteq Grants
      /\ held' = [p \in Clients |-> IF pc[p] = "idle" THEN held[p] ELSE held[p] \cup grants']
    BY ManagementAssumption DEF ChangeGrants, IInv, TypeOK
<1>2. \A p \in Clients : /\ held'[p] = IF pc[p] = "idle" THEN held[p] ELSE held[p] \cup grants'
                         /\ held'[p] \subseteq Grants
    BY <1>1 DEF IInv, TypeOK
<1>3. TypeOK' /\ Shapes' /\ CallInv' /\ SeqInv' /\ WrittenInv' /\ RejectionHasNoEffect' /\ PoolInv'
    BY <1>1, <1>2 DEF IInv, TypeOK, Shapes, CallInv, SeqInv, WrittenInv,
        RejectionHasNoEffect, PoolInv, Open
<1>4. HeldInv'
    BY <1>1, <1>2 DEF IInv, HeldInv
<1>5. \A p \in Clients : PageInv(p)'
    BY <1>1 DEF IInv, PageInv, Matching
<1> QED
    BY <1>3, <1>4, <1>5 DEF IInv

\* A call begins; its pages go on, or begin again.
LEMMA CallStep == ASSUME IInv, NEW p \in Clients, Call(p) PROVE IInv'
<1> PICK c \in Calls : /\ call' = [call EXCEPT ![p] = c]
                       /\ paging' = IF paging[p].state = "open" /\ c = call[p] THEN paging
                                    ELSE [paging EXCEPT ![p] = NoPaging]
    BY DEF Call
<1>1. /\ UNCHANGED <<config, plugin, grants, rows, next_seq, seq, granted, faults>>
      /\ calls' \in 0..MaxCalls /\ pc[p] = "idle"
      /\ pc' = [pc EXCEPT ![p] = "admit"] /\ held' = [held EXCEPT ![p] = grants]
      /\ written' = [written EXCEPT ![p] = FALSE] /\ answer' = [answer EXCEPT ![p] = "none"]
    BY ManagementAssumption DEF Call, Goto, IInv, TypeOK
<1>2. /\ DOMAIN call = Clients /\ DOMAIN held = Clients /\ DOMAIN written = Clients
      /\ DOMAIN paging = Clients
      /\ pc \in [Clients -> {"idle"} \cup Working]
      /\ answer \in [Clients -> {"none", "ok", "runtime"} \cup Domain \cup ToolErrors]
    BY DEF IInv, TypeOK, Shapes
<1>3. /\ pc'[p] = "admit" /\ held'[p] = grants /\ ~ written'[p] /\ written'[p] \in BOOLEAN
      /\ call'[p] = c /\ answer'[p] = "none"
      /\ \A o \in Clients \ {p} :
            /\ pc'[o] = pc[o] /\ held'[o] = held[o] /\ written'[o] = written[o]
            /\ call'[o] = call[o] /\ answer'[o] = answer[o] /\ paging'[o] = paging[o]
    BY <1>1, <1>2
<1>4. \A o \in Clients : Open(o)' <=> Open(o)
    BY <1>1, <1>3 DEF Open
<1>5. TypeOK'
    <2>1. /\ pc' \in [Clients -> {"idle"} \cup Working]
          /\ answer' \in [Clients -> {"none", "ok", "runtime"} \cup Domain \cup ToolErrors]
        BY <1>1, <1>2 DEF Working
    <2>2. \A o \in Clients : held'[o] \subseteq Grants /\ written'[o] \in BOOLEAN
        BY <1>3 DEF IInv, TypeOK
    <2>3. \A o \in Clients : Open(o)' =>
            /\ rows'[seq'[o]] = "absent"
            /\ \A q \in Clients : q # o /\ Open(q)' => seq'[q] # seq'[o]
        BY <1>1, <1>4 DEF IInv, TypeOK
    <2> QED
        BY <1>1, <2>1, <2>2, <2>3 DEF IInv, TypeOK
<1>6. Shapes'
    <2>1. NoPaging \in Pagings
        BY DEF NoPaging
    <2> QED
        BY <1>1, <2>1 DEF IInv, Shapes
<1>7. CallInv'
    BY <1>3 DEF IInv, CallInv
<1>8. SeqInv'
    BY <1>1, <1>4 DEF IInv, SeqInv
<1>9. HeldInv'
    BY <1>1, <1>3 DEF IInv, HeldInv
<1>10. WrittenInv' /\ RejectionHasNoEffect'
    BY <1>3 DEF IInv, WrittenInv, RejectionHasNoEffect
<1>11. PoolInv'
    BY <1>1, <1>3 DEF IInv, PoolInv
<1>12. ASSUME NEW o \in Clients \ {p}
       PROVE  PageInv(o)'
    BY <1>1, <1>3 DEF IInv, PageInv, Matching
<1>13. PageInv(p)'
    <2>1. CASE paging[p].state = "open" /\ c = call[p]
        BY <1>1, <1>3, <2>1 DEF IInv, PageInv, Matching
    <2>2. CASE ~ (paging[p].state = "open" /\ c = call[p])
        <3>1. paging'[p] = NoPaging
            BY <1>2, <2>2
        <3> QED
            BY <3>1 DEF PageInv, NoPaging, IsInjective
    <2> QED
        BY <2>1, <2>2
<1> QED
    BY <1>5, <1>6, <1>7, <1>8, <1>9, <1>10, <1>11, <1>12, <1>13 DEF IInv

LEMMA AdmitStep == ASSUME IInv, NEW p \in Clients, Admit(p) PROVE IInv'
<1>1. /\ pc[p] = "admit" /\ UNCHANGED <<config, plugin, grants, rows, next_seq, bounds>>
      /\ \/ \E r \in Results : Refuse(p, r)
         \/ /\ call[p].operation \in Tools /\ Goto(p, "membership")
            /\ UNCHANGED <<call, seq, held, written, answer, paging>>
    BY DEF Admit, Results, Domain
<1>2. BoundsOK'
    BY <1>1, BoundsFacts
<1>3. CASE \E r \in Results : Refuse(p, r)
    BY <1>1, <1>2, <1>3, Refused
<1>4. CASE /\ call[p].operation \in Tools /\ Goto(p, "membership")
           /\ UNCHANGED <<call, seq, held, written, answer, paging>>
    BY <1>1, <1>2, <1>4, Passed DEF Working
<1> QED
    BY <1>1, <1>3, <1>4

\* A check is passed when what it asks for is granted, and so held.
LEMMA CheckStep ==
    ASSUME IInv, NEW p \in Clients, CheckMembership(p) \/ CheckPermission(p)
    PROVE  IInv'
<1>1. /\ pc[p] \in {"membership", "access"}
      /\ UNCHANGED <<config, plugin, grants, rows, next_seq, calls, granted>>
      /\ Fault \/ UNCHANGED faults
      /\ \/ \E r \in Results : Refuse(p, r)
         \/ /\ UNCHANGED <<call, seq, held, written, answer, paging>>
            /\ \/ pc[p] = "membership" /\ "member" \in grants /\ Goto(p, "access")
               \/ /\ pc[p] = "access" /\ Permission(call[p].operation) \in grants
                  /\ Goto(p, "validate")
    BY DEF CheckMembership, CheckPermission, Check, CheckFails, Results, Domain
<1>2. BoundsOK'
    BY <1>1, BoundsFacts
<1>3. /\ grants \subseteq held[p] /\ call[p].operation \in Tools
      /\ pc[p] = "access" => "member" \in held[p]
    BY <1>1 DEF IInv, HeldInv, CallInv
<1>4. CASE \E r \in Results : Refuse(p, r)
    BY <1>1, <1>2, <1>4, Refused
<1>5. CASE /\ UNCHANGED <<call, seq, held, written, answer, paging>>
           /\ pc[p] = "membership" /\ "member" \in grants /\ Goto(p, "access")
    BY <1>1, <1>2, <1>3, <1>5, Passed DEF Working
<1>6. CASE /\ UNCHANGED <<call, seq, held, written, answer, paging>>
           /\ pc[p] = "access" /\ Permission(call[p].operation) \in grants
           /\ Goto(p, "validate")
    BY <1>1, <1>2, <1>3, <1>6, Passed DEF Working
<1> QED
    BY <1>1, <1>4, <1>5, <1>6

LEMMA ValidateStep == ASSUME IInv, NEW p \in Clients, Validate(p) PROVE IInv'
<1>1. /\ pc[p] = "validate" /\ UNCHANGED <<config, plugin, grants, rows, next_seq, bounds>>
      /\ \/ \E r \in Results : Refuse(p, r)
         \/ Goto(p, "begin") /\ UNCHANGED <<call, seq, held, written, answer, paging>>
    BY DEF Validate, Results, Domain
<1>2. BoundsOK'
    BY <1>1, BoundsFacts
<1>3. /\ call[p].operation \in Tools
      /\ {"member", Permission(call[p].operation)} \subseteq held[p]
    BY <1>1 DEF IInv, HeldInv, CallInv
<1>4. CASE \E r \in Results : Refuse(p, r)
    BY <1>1, <1>2, <1>4, Refused
<1>5. CASE Goto(p, "begin") /\ UNCHANGED <<call, seq, held, written, answer, paging>>
    BY <1>1, <1>2, <1>3, <1>5, Passed DEF Working
<1> QED
    BY <1>1, <1>4, <1>5

\* A transaction begins; the row_seq of a create_rule was never given before.
LEMMA BeginStep == ASSUME IInv, NEW p \in Clients, Begin(p) PROVE IInv'
<1>1. /\ pc[p] = "begin" /\ call[p].operation \in Commands
      /\ UNCHANGED <<config, plugin, grants, rows, bounds>>
    BY DEF Begin
<1>2. BoundsOK'
    BY <1>1, BoundsFacts
<1>3. CASE Refuse(p, "runtime") /\ UNCHANGED next_seq
    <2>1. "runtime" \in Results
        BY DEF Results
    <2> QED
        BY <1>1, <1>2, <1>3, <2>1, Refused
<1>4. CASE /\ plugin = "active" /\ Goto(p, "commit")
           /\ IF call[p].operation = "create_rule"
              THEN /\ next_seq <= MaxRules /\ seq' = [seq EXCEPT ![p] = next_seq]
                   /\ next_seq' = next_seq + 1
              ELSE UNCHANGED <<seq, next_seq>>
           /\ UNCHANGED <<call, held, written, answer, paging>>
    <2>1. /\ next_seq \in 1..(MaxRules + 1) /\ MaxRules \in Nat
          /\ DOMAIN seq = Clients /\ DOMAIN written = Clients
          /\ written[p] \in BOOLEAN /\ ~ written[p]
          /\ pc \in [Clients -> {"idle"} \cup Working]
        BY <1>1, ManagementAssumption DEF IInv, TypeOK, Shapes, SeqInv, WrittenInv
    <2>2. /\ pc'[p] = "commit" /\ \A o \in Clients \ {p} : pc'[o] = pc[o]
          /\ \A o \in Clients \ {p} : seq'[o] = seq[o]
          /\ DOMAIN seq' = Clients
        BY <1>4, <2>1 DEF Goto
    <2>3. call[p].operation = "create_rule" => seq'[p] = next_seq /\ next_seq \in RowSeqs
        BY <1>4, <2>1 DEF RowSeqs
    <2>4. SeqInv'
        <3>1. next_seq' \in 1..(MaxRules + 1) /\ next_seq <= next_seq'
            BY <1>4, <2>1
        <3>2. \A s \in RowSeqs : rows'[s] # "absent" => s < next_seq'
            <4>1. \A s \in RowSeqs : rows'[s] # "absent" => s < next_seq /\ s \in Int
                BY <1>1 DEF IInv, SeqInv, RowSeqs
            <4> QED
                BY <2>1, <3>1, <4>1
        <3>3. ASSUME NEW o \in Clients, Open(o)'
              PROVE  seq'[o] \in RowSeqs /\ seq'[o] < next_seq'
            <4>1. CASE o = p
                BY <1>4, <2>1, <2>3, <3>3, <4>1 DEF Open
            <4>2. CASE o # p
                <5>1. Open(o) /\ seq'[o] = seq[o] /\ seq[o] \in RowSeqs /\ seq[o] < next_seq
                    BY <1>4, <2>2, <3>3, <4>2 DEF Open, IInv, SeqInv
                <5> QED
                    BY <2>1, <3>1, <5>1 DEF RowSeqs
            <4> QED
                BY <4>1, <4>2
        <3> QED
            BY <3>1, <3>2, <3>3 DEF SeqInv
    <2>5. {"member", Permission(call[p].operation)} \subseteq held[p]
        BY <1>1 DEF IInv, HeldInv
    <2>6. PagesStep
        <3>1. \A o \in Clients : pc[o] = "idle" => pc'[o] = "idle"
            BY <1>1, <2>2
        <3>2. \A o \in Clients : PageInv(o)'
            BY <1>1, <1>4, <3>1, PagesKept
        <3> QED
            BY <1>4, <3>2 DEF PagesStep, IInv, Shapes
    <2>7. "commit" \in Working /\ call[p].operation \in Tools
        BY <1>1 DEF Working, Tools
    <2> QED
        BY <1>1, <1>2, <1>4, <2>1, <2>2, <2>3, <2>4, <2>5, <2>6, <2>7, Moved
<1> QED
    BY <1>3, <1>4 DEF Begin, NextSeq

\* What a COMMIT does to the tables.
LEMMA AppliedTable ==
    ASSUME IInv, NEW p \in Clients, pc[p] = "commit", Apply(p), UNCHANGED next_seq
    PROVE  TableStep(p)
<1>1. /\ call[p] \in Calls /\ call[p].operation \in Commands
      /\ rows \in [RowSeqs -> {"absent", "enabled", "disabled", "deleted"}]
      /\ call[p].operation = "create_rule" => Open(p) /\ seq[p] \in RowSeqs
    BY DEF IInv, CallInv, TypeOK, SeqInv, Open, RowSeqs
<1>2. call[p].operation \in {"create_rule", "set_rule_enabled"} =>
        call[p].enabled \in {"enabled", "disabled"}
    BY <1>1, CallsAssumption
<1>3. rows' \in Effects(p)
    BY DEF Apply
<1>4. CASE call[p].operation = "create_rule"
    <2>1. rows' = [rows EXCEPT ![seq[p]] = call[p].enabled]
        BY <1>3, <1>4 DEF Effects
    <2> QED
        BY <1>1, <1>2, <1>4, <2>1 DEF TableStep
<1>5. CASE call[p].operation = "update_rule"
    <2>1. rows' = rows
        BY <1>3, <1>5 DEF Effects
    <2> QED
        BY <1>1, <2>1 DEF TableStep
<1>6. CASE call[p].operation \in {"set_rule_enabled", "delete_rule"}
    <2>1. PICK s \in Active, to \in {"enabled", "disabled", "deleted"} :
            rows' = [rows EXCEPT ![s] = to]
        BY <1>2, <1>3, <1>6 DEF Effects
    <2>2. s \in RowSeqs /\ rows[s] # "absent"
        BY <1>1 DEF Active
    <2> QED
        BY <1>1, <2>1, <2>2 DEF TableStep
<1> QED
    BY <1>1, <1>4, <1>5, <1>6 DEF Commands

\* A COMMIT that is answered, or whose answer is lost.
LEMMA CommittedAndEnded ==
    ASSUME IInv, NEW p \in Clients, pc[p] = "commit", Apply(p),
           NEW r \in {"ok", "runtime"}, Answer(p, r),
           UNCHANGED <<config, plugin, grants, next_seq>>, BoundsOK'
    PROVE  IInv'
<1>1. /\ call' = call /\ r \in Results /\ TableStep(p)
      /\ \A o \in Clients : pc[o] = "idle" => pc'[o] = "idle"
    BY AppliedTable DEF Answer, Goto, Results, IInv, TypeOK
<1>2. PagesStep
    BY <1>1, PagesApplied DEF PagesStep
<1>3. /\ DOMAIN written' = Clients /\ written'[p] = TRUE
      /\ \A o \in Clients \ {p} : written'[o] = written[o]
    BY DEF Apply, IInv, Shapes
<1> QED
    BY <1>1, <1>2, <1>3, Ended

LEMMA CommitStep == ASSUME IInv, NEW p \in Clients, Commit(p) PROVE IInv'
<1>1. /\ pc[p] = "commit" /\ UNCHANGED <<config, plugin, grants, next_seq, bounds>>
      /\ \/ Apply(p) /\ Answer(p, "ok")
         \/ Apply(p) /\ Goto(p, "flush") /\ UNCHANGED <<call, seq, held, answer>>
         \/ (\E e \in Rejections(call[p].operation) : Refuse(p, e)) /\ UNCHANGED rows
    BY DEF Commit
<1>2. BoundsOK'
    BY <1>1, BoundsFacts
<1>3. /\ call[p].operation \in Tools /\ call[p].operation \in Commands
      /\ {"member", Permission(call[p].operation)} \subseteq held[p]
    BY <1>1 DEF IInv, CallInv, HeldInv
<1>4. CASE Apply(p) /\ Answer(p, "ok")
    BY <1>1, <1>2, <1>4, CommittedAndEnded
<1>5. CASE Apply(p) /\ Goto(p, "flush") /\ UNCHANGED <<call, seq, held, answer>>
    <2>1. TableStep(p) /\ \A o \in Clients : pc[o] = "idle" => pc'[o] = "idle"
        BY <1>1, <1>5, AppliedTable DEF Goto, IInv, TypeOK
    <2>2. PagesStep
        BY <1>5, <2>1, PagesApplied DEF PagesStep
    <2>3. /\ DOMAIN written' = Clients /\ written'[p] = TRUE
          /\ \A o \in Clients \ {p} : written'[o] = written[o]
        BY <1>5 DEF Apply, IInv, Shapes
    <2>4. "flush" \in Working
        BY DEF Working
    <2> QED
        BY <1>1, <1>2, <1>3, <1>5, <2>1, <2>2, <2>3, <2>4, Moved
<1>6. CASE (\E e \in Rejections(call[p].operation) : Refuse(p, e)) /\ UNCHANGED rows
    <2>1. Rejections(call[p].operation) \subseteq Results
        BY <1>3 DEF Rejections, Results, Domain, Commands
    <2> QED
        BY <1>1, <1>2, <1>6, <2>1, Refused
<1> QED
    BY <1>1, <1>4, <1>5, <1>6

\* The call has committed, and its flush cannot reject it any more.
LEMMA FlushStep == ASSUME IInv, NEW p \in Clients, Flush(p) PROVE IInv'
<1>1. PICK r \in {"ok", "runtime"} :
        /\ pc[p] = "flush" /\ Answer(p, r) /\ (Fault \/ UNCHANGED faults)
        /\ UNCHANGED <<config, plugin, grants, rows, next_seq, written, paging, calls, granted>>
    BY DEF Flush, FlushFails
<1>2. BoundsOK'
    BY <1>1, BoundsFacts
<1>3. /\ call' = call /\ r \in Results
      /\ \A o \in Clients : pc[o] = "idle" => pc'[o] = "idle"
    BY <1>1 DEF Answer, Goto, Results, IInv, TypeOK
<1>4. PagesStep
    <2>1. \A o \in Clients : PageInv(o)'
        BY <1>1, <1>3, PagesKept
    <2> QED
        BY <1>1, <2>1 DEF PagesStep, IInv, Shapes
<1>5. TableStep(p)
    BY <1>1 DEF TableStep, IInv, TypeOK, RowSeqs
<1>6. DOMAIN written' = Clients /\ written'[p] \in BOOLEAN
    BY <1>1 DEF IInv, Shapes, TypeOK
<1> QED
    BY <1>1, <1>2, <1>3, <1>4, <1>5, <1>6, Ended

LEMMA ReadStep == ASSUME IInv, NEW p \in Clients, Read(p) PROVE IInv'
<1>1. /\ pc[p] = "begin" /\ UNCHANGED <<config, plugin, grants, rows, next_seq, bounds>>
      /\ \/ \E r \in Results : Refuse(p, r)
         \/ /\ call[p].operation = "list_rules" /\ ListRules(p)
            /\ Answer(p, "ok") /\ UNCHANGED written
    BY DEF Read, Results, Domain
<1>2. BoundsOK'
    BY <1>1, BoundsFacts
<1>3. CASE \E r \in Results : Refuse(p, r)
    BY <1>1, <1>2, <1>3, Refused
<1>4. CASE /\ call[p].operation = "list_rules" /\ ListRules(p)
           /\ Answer(p, "ok") /\ UNCHANGED written
    <2>1. /\ call' = call /\ pc' = [pc EXCEPT ![p] = "idle"] /\ "ok" \in Results
        BY <1>4 DEF Answer, Goto, Results
    <2>2. PagesStep
        BY <1>1, <1>4, <2>1, PagesListed DEF PagesStep
    <2>3. TableStep(p)
        BY <1>1 DEF TableStep, IInv, TypeOK, RowSeqs
    <2>4. DOMAIN written' = Clients /\ written'[p] \in BOOLEAN /\ ~ written'[p]
        BY <1>1, <1>4 DEF IInv, Shapes, TypeOK, WrittenInv
    <2> QED
        BY <1>1, <1>2, <1>4, <2>1, <2>2, <2>3, <2>4, Ended
<1> QED
    BY <1>1, <1>3, <1>4

LEMMA FailStep == ASSUME IInv, NEW p \in Clients, Fail(p) PROVE IInv'
<1>1. /\ pc[p] \in {"begin", "commit"} /\ Fault
      /\ UNCHANGED <<config, plugin, grants, next_seq, calls, granted>>
      /\ \/ Refuse(p, "runtime") /\ UNCHANGED rows
         \/ pc[p] = "commit" /\ Apply(p) /\ Answer(p, "runtime")
    BY DEF Fail
<1>2. BoundsOK' /\ "runtime" \in Results
    BY <1>1, BoundsFacts DEF Results
<1>3. CASE Refuse(p, "runtime") /\ UNCHANGED rows
    BY <1>1, <1>2, <1>3, Refused
<1>4. CASE pc[p] = "commit" /\ Apply(p) /\ Answer(p, "runtime")
    BY <1>1, <1>2, <1>4, CommittedAndEnded
<1> QED
    BY <1>1, <1>3, <1>4

---------------------------------------------------------------------------
(* The invariant is inductive.                                             *)

LEMMA Start == ASSUME Init PROVE IInv
<1>1. PICK n \in 0..MaxRules : FirstRules = 1..n
    BY ManagementAssumption
<1>2. n \in Nat /\ MaxRules \in Nat /\ Cardinality(FirstRules) = n
    BY <1>1, FS_Interval, ManagementAssumption
<1>3. /\ \A p \in Clients : pc[p] = "idle" /\ answer[p] = "none" /\ paging[p] = NoPaging
      /\ next_seq = n + 1
    BY <1>2 DEF Init
<1>4. TypeOK
    <2>1. /\ rows \in [1..MaxRules -> {"absent", "enabled", "disabled", "deleted"}]
          /\ pc \in [Clients -> {"idle"} \cup Working]
          /\ answer \in [Clients -> {"none", "ok", "runtime"} \cup Domain \cup ToolErrors]
        BY DEF Init
    <2>2. \A p \in Clients : held[p] = {} /\ written[p] = FALSE /\ ~ Open(p)
        BY <1>3 DEF Init, Open
    <2> QED
        BY <2>1, <2>2, ManagementAssumption DEF Init, TypeOK
<1>5. Shapes
    <2>1. NoPaging \in Pagings
        BY DEF NoPaging
    <2> QED
        BY <2>1 DEF Init, Shapes
<1>6. SeqInv
    <2>1. \A s \in RowSeqs : rows[s] # "absent" => s \in 1..n
        BY <1>1 DEF Init, RowSeqs
    <2> QED
        BY <1>2, <1>3, <2>1 DEF SeqInv, Open
<1>7. CallInv /\ HeldInv /\ WrittenInv /\ RejectionHasNoEffect
    BY <1>3 DEF CallInv, HeldInv, WrittenInv, RejectionHasNoEffect
<1>8. PoolInv
    BY DEF Init, PoolInv
<1>9. \A p \in Clients : PageInv(p)
    BY <1>3 DEF PageInv, NoPaging, IsInjective
<1> QED
    BY <1>4, <1>5, <1>6, <1>7, <1>8, <1>9 DEF IInv

LEMMA Stutter == ASSUME IInv, UNCHANGED vars PROVE IInv'
BY DEF vars, client, bounds, IInv, TypeOK, Shapes, CallInv, SeqInv, HeldInv, WrittenInv,
    RejectionHasNoEffect, PoolInv, PageInv, Matching, Open

LEMMA Step == ASSUME IInv, [Next]_vars PROVE IInv'
<1>1. CASE Load \/ Activate \/ Deactivate \/ ClosePool
    BY <1>1, LifecycleStep
<1>2. CASE ChangeGrants
    BY <1>2, ChangeGrantsStep
<1>3. ASSUME NEW p \in Clients,
             \/ Call(p) \/ Admit(p) \/ CheckMembership(p) \/ CheckPermission(p) \/ Validate(p)
             \/ Begin(p) \/ Commit(p) \/ Flush(p) \/ Read(p) \/ Fail(p)
      PROVE  IInv'
    BY <1>3, CallStep, AdmitStep, CheckStep, ValidateStep, BeginStep, CommitStep, FlushStep,
        ReadStep, FailStep
<1>4. CASE UNCHANGED vars
    BY <1>4, Stutter
<1> QED
    BY <1>1, <1>2, <1>3, <1>4 DEF Next

LEMMA Inductive == Spec => []IInv
<1>1. Init => IInv
    BY Start
<1>2. IInv /\ [Next]_vars => IInv'
    BY Step
<1> QED
    BY <1>1, <1>2, PTL DEF Spec

---------------------------------------------------------------------------
(* The theorems.                                                           *)

\* The state has its type, and a row_seq that a transaction has taken is that
\* of no other rule, however commands and their failures interleave.
THEOREM TypeCorrect == Spec => []TypeOK
<1>1. IInv => TypeOK
    BY DEF IInv
<1> QED
    BY <1>1, Inductive, PTL

\* No management operation gets to the database but for an actor that has been
\* a member, with the permission of that operation, since the call began,
\* however often both are given and taken away and the checks fail.
THEOREM CallsAreAuthorized == Spec => []StorageIsAuthorized
<1>1. IInv => StorageIsAuthorized
    BY DEF IInv, HeldInv, StorageIsAuthorized
<1> QED
    BY <1>1, Inductive, PTL

\* A caller or an agent that is told of a rejection has changed nothing.
THEOREM RejectionsAreEmpty == Spec => []RejectionHasNoEffect
<1>1. IInv => RejectionHasNoEffect
    BY DEF IInv
<1> QED
    BY <1>1, Inductive, PTL

\* Pages of list_rules, of any size, show every rule that stays, and each once,
\* beside any number of clients that create, change and delete rules.
THEOREM PagesAreComplete == Spec => []StableRulesListed
<1>1. IInv => StableRulesListed
    <2>1. ASSUME IInv, NEW p \in Clients
          PROVE  /\ IsInjective(paging[p].listed)
                 /\ paging[p].state = "done" => paging[p].stable \subseteq ToSet(paging[p].listed)
        BY <2>1 DEF IInv, PageInv
    <2> QED
        BY <2>1 DEF StableRulesListed
<1> QED
    BY <1>1, Inductive, PTL

\* Nothing is written once the pool is closed: a transaction that is open holds
\* up deactivate, and none begins after it.
THEOREM ClosedIsQuiet == Spec => QuietAfterDeactivate
<1> DEFINE Quiet == /\ UNCHANGED <<rows, next_seq>>
                    /\ \A p \in Clients : written'[p] => written[p]
<1>1. ASSUME IInv, [Next]_vars
      PROVE  [plugin = "ended" => Quiet]_vars
    <2>1. SUFFICES ASSUME plugin = "ended", Next PROVE Quiet
        BY <1>1
    <2>2. \A p \in Clients : pc[p] # "commit"
        BY <1>1, <2>1 DEF IInv, PoolInv
    <2>3. CASE Load \/ Activate \/ Deactivate \/ ClosePool \/ ChangeGrants
        BY <2>3 DEF Load, Activate, Deactivate, ClosePool, ChangeGrants, client
    <2>4. ASSUME NEW p \in Clients, Call(p) PROVE Quiet
        <3>1. UNCHANGED <<rows, next_seq>> /\ written' = [written EXCEPT ![p] = FALSE]
            BY <2>4 DEF Call
        <3>2. \A o \in Clients : written'[o] => written[o]
            BY <1>1, <3>1 DEF IInv, TypeOK
        <3> QED
            BY <3>1, <3>2
    <2>5. ASSUME NEW p \in Clients,
                 \/ Admit(p) \/ CheckMembership(p) \/ CheckPermission(p)
                 \/ Validate(p) \/ Flush(p) \/ Read(p)
          PROVE  Quiet
        <3>1. UNCHANGED <<rows, next_seq, written>>
            BY <2>5 DEF Admit, CheckMembership, CheckPermission, Check, CheckFails, Validate,
                Flush, Read, Refuse
        <3> QED
            BY <3>1
    <2>6. ASSUME NEW p \in Clients, Begin(p) PROVE Quiet
        BY <2>1, <2>6 DEF Begin, Refuse, Answer, Goto
    <2>7. ASSUME NEW p \in Clients, Commit(p) \/ Fail(p) PROVE Quiet
        BY <2>2, <2>7 DEF Commit, Fail, Refuse, Answer
    <2> QED
        BY <2>1, <2>3, <2>4, <2>5, <2>6, <2>7 DEF Next
<1>2. QuietAfterDeactivate <=> [][plugin = "ended" => Quiet]_vars
    BY DEF QuietAfterDeactivate
<1> HIDE DEF Quiet
<1> QED
    BY <1>1, <1>2, Inductive, PTL DEF Spec
===========================================================================
