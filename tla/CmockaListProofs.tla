--------------------------- MODULE CmockaListProofs ---------------------------
(***************************************************************************)
(* Theorems about the verdicts of tests: what the lists of declared values *)
(* say of the calls a test made.  As in CmockaProofs, for every program of *)
(* well-formed calls.                                                      *)
(*                                                                         *)
(* ValuesInv says that the lists are what is left of the declarations of   *)
(* the function that runs: every use so far was charged to a declaration,  *)
(* each node of a list is a declaration with the uses it still allows, and *)
(* a declaration without a node has had all its uses.                      *)
(*                                                                         *)
(* PassedMeansKept follows when the lists are found empty.  NoFalseFailure *)
(* needs that the charges of a test are the only ones its calls allow, so  *)
(* that whatever fails it contradicts every way to keep its declarations,  *)
(* and UntouchedInv for the blocks of its fixtures.                        *)
(***************************************************************************)
EXTENDS CmockaProofs

\* What a declaration puts into its list.
Value(op) ==
  CASE op.call = "will_return"          -> op.value
    [] op.call = "expect_check"         -> op.check
    [] op.call = "expect_function_call" -> op.function

\* The uses charged to declaration j.
UsesOf(used, charge, j) == {k \in used : charge[k] = j}

\* The count of a node that was declared for a number of uses, after some.
Left(count, refcount, uses) ==
  \/ refcount > 0 /\ count = refcount + Cardinality(uses)
  \/ refcount = 0 /\ count = 0
  \/ refcount = WILL_RETURN_ALWAYS /\ count = WILL_RETURN_ALWAYS /\ uses = {}
  \/ /\ refcount = WILL_RETURN_ONCE
     /\ count = WILL_RETURN_ONCE \/ (count = WILL_RETURN_ALWAYS /\ uses # {})

\* A list holds the declarations that may still be used, in their order, and
\* the uses so far were charged to declarations.
Accounts(calls, declared, used, list, node, charge) ==
  /\ \A k \in used : charge[k] < k /\ Meets(calls[charge[k]], calls[k])
  /\ \A k, l \in 1 .. Len(list) : k < l => node[k] < node[l]
  /\ \A k \in 1 .. Len(list) :
       /\ list[k].value = Value(calls[node[k]])
       /\ Left(calls[node[k]].count, list[k].refcount, UsesOf(used, charge, node[k]))
  /\ \A j \in declared \ Range(node) :
       calls[j].count > 0 /\ Cardinality(UsesOf(used, charge, j)) = calls[j].count

\* The values of a symbol are used up from the first.
InTurn(declared, used, list, node, charge) ==
  /\ \A k, l \in used : k < l => charge[k] <= charge[l]
  /\ \A j \in declared \ Range(node) : \A k \in 1 .. Len(list) : j < node[k]
  /\ \A k \in 2 .. Len(list) : UsesOf(used, charge, node[k]) = {}

\* What was declared before a call that was made is finished or passed over.
PassedOver(calls, declared, used, node, charge) ==
  \A k \in used : \A j \in {i \in declared : i < charge[k]} :
    IF calls[j].count > 0 THEN j \notin Range(node) /\ \A l \in used : charge[l] = j => l < k
    ELSE /\ calls[j].function # calls[k].function
         /\ calls[j].count = WILL_RETURN_ALWAYS => \E l \in used : charge[l] = j /\ l < k

ValuesAccounted(calls, declared, used, list) ==
  \E node \in [1 .. Len(list) -> declared], charge \in [used -> declared] :
    /\ Accounts(calls, declared, used, list, node, charge)
    /\ InTurn(declared, used, list, node, charge)

OrderAccounted(calls, declared, used, list) ==
  \E node \in [1 .. Len(list) -> declared], charge \in [used -> declared] :
    /\ Accounts(calls, declared, used, list, node, charge)
    /\ PassedOver(calls, declared, used, node, charge)

Given(calls, f)   == {i \in Of(calls, "will_return") : calls[i].function = f}
Taken(calls, f)   == {i \in Of(calls, "mock") : calls[i].function = f}
Awaited(calls, p) == {i \in Of(calls, "expect_check") : calls[i].parameter = p}
Checks(calls, p)  == {i \in Of(calls, "check_expected") : calls[i].parameter = p}

(***************************************************************************)
(* Calls and uses.                                                         *)
(***************************************************************************)
\* A call more.
LEMMA CallAdded ==
  ASSUME NEW calls, IsSequence(calls), NEW op
  PROVE  /\ Len(calls) + 1 \notin DOMAIN calls /\ DOMAIN calls \subseteq Nat
         /\ \A i \in DOMAIN calls : i < Len(calls) + 1 /\ Append(calls, op)[i] = calls[i]
         /\ Append(calls, op)[Len(calls) + 1] = op
         /\ DOMAIN Append(calls, op) = DOMAIN calls \union {Len(calls) + 1}
         /\ Len(calls) + 1 \in Nat /\ IsFiniteSet(DOMAIN calls)
<1>1. /\ Len(calls) \in Nat /\ DOMAIN calls = 1 .. Len(calls)
      /\ Append(calls, op)[Len(calls) + 1] = op
      /\ \A i \in 1 .. Len(calls) : Append(calls, op)[i] = calls[i]
      /\ DOMAIN Append(calls, op) = 1 .. Len(calls) + 1
  BY SequenceFacts
<1>2. IsFiniteSet(1 .. Len(calls))
  <2>1. 1 \in Int /\ Len(calls) \in Int
    BY <1>1
  <2> QED BY <2>1, FS_Interval
<1> QED BY <1>1, <1>2

\* The calls of one kind, with it.
LEMMA OfAdded ==
  ASSUME NEW calls, IsSequence(calls), NEW op, NEW name
  PROVE  Of(Append(calls, op), name)
           = Of(calls, name) \union {i \in {Len(calls) + 1} : op.call = name}
BY CallAdded DEF Of

LEMMA KindsAdded ==
  ASSUME NEW calls, IsSequence(calls), NEW op, NEW s
  PROVE  LET n == Len(calls) + 1 IN
         /\ Given(Append(calls, op), s)
              = Given(calls, s) \union {i \in {n} : op.call = "will_return" /\ op.function = s}
         /\ Taken(Append(calls, op), s)
              = Taken(calls, s) \union {i \in {n} : op.call = "mock" /\ op.function = s}
         /\ Awaited(Append(calls, op), s)
              = Awaited(calls, s) \union {i \in {n} : op.call = "expect_check" /\ op.parameter = s}
         /\ Checks(Append(calls, op), s)
              = Checks(calls, s) \union {i \in {n} : op.call = "check_expected" /\ op.parameter = s}
BY CallAdded, OfAdded DEF Given, Taken, Awaited, Checks, Of

\* The uses of a declaration are finitely many,
LEMMA UsesFinite ==
  ASSUME NEW calls, IsSequence(calls), NEW used, used \subseteq DOMAIN calls, NEW charge, NEW j
  PROVE  /\ IsFiniteSet(UsesOf(used, charge, j)) /\ Cardinality(UsesOf(used, charge, j)) \in Nat
         /\ IsFiniteSet(used) /\ UsesOf(used, charge, j) \subseteq used
<1>1. IsFiniteSet(used)
  BY CallAdded, FS_Subset
<1>2. UsesOf(used, charge, j) \in SUBSET used
  BY DEF UsesOf
<1> QED BY <1>1, <1>2, FS_Subset, FS_CardinalityType

\* The charges with that of one use more.
Charging(used, charge, n, j) == [k \in used \union {n} |-> IF k = n THEN j ELSE charge[k]]

\* They charge it to j and change nothing else.
OneUseMore(declared, used, charge, n, j, new) ==
  /\ new \in [used \union {n} -> declared]
  /\ new[n] = j /\ \A k \in used : new[k] = charge[k]
  /\ UsesOf(used \union {n}, new, j) = UsesOf(used, charge, j) \union {n}
  /\ Cardinality(UsesOf(used \union {n}, new, j)) = Cardinality(UsesOf(used, charge, j)) + 1
  /\ \A i : i # j => UsesOf(used \union {n}, new, i) = UsesOf(used, charge, i)

LEMMA UseAdded ==
  ASSUME NEW calls, IsSequence(calls), NEW used, used \subseteq DOMAIN calls, NEW declared,
         NEW charge \in [used -> declared], NEW j \in declared, NEW n, n \notin used
  PROVE  OneUseMore(declared, used, charge, n, j, Charging(used, charge, n, j))
<1> DEFINE new == Charging(used, charge, n, j)
<1>1. /\ new \in [used \union {n} -> declared]
      /\ new[n] = j /\ \A k \in used : new[k] = charge[k]
  BY DEF Charging
<1> HIDE DEF new
<1>2. UsesOf(used \union {n}, new, j) = UsesOf(used, charge, j) \union {n}
  BY <1>1 DEF UsesOf
<1>3. \A i : i # j => UsesOf(used \union {n}, new, i) = UsesOf(used, charge, i)
  BY <1>1 DEF UsesOf
<1>4. n \notin UsesOf(used, charge, j)
  BY DEF UsesOf
<1>5. Cardinality(UsesOf(used, charge, j) \union {n}) = Cardinality(UsesOf(used, charge, j)) + 1
  BY <1>4, UsesFinite, FS_AddElement
<1>6. OneUseMore(declared, used, charge, n, j, new)
  BY <1>1, <1>2, <1>3, <1>5 DEF OneUseMore
<1> QED BY <1>6 DEF new

\* What one use leaves of a count.
LEMMA LeftAfterUse ==
  ASSUME NEW count, NEW refcount \in Counts, refcount # 0, NEW uses, NEW more,
         Left(count, refcount, uses), Cardinality(uses) \in Nat,
         Cardinality(more) = Cardinality(uses) + 1, more # {}
  PROVE  /\ refcount = 1 => count > 0 /\ Cardinality(more) = count
         /\ refcount # 1 =>
              Left(count, IF refcount > WILL_RETURN_ONCE THEN refcount - 1 ELSE refcount, more)
BY DEF Left, Counts, WILL_RETURN_ALWAYS, WILL_RETURN_ONCE

\* A list one of whose nodes was used.
LEMMA UsedFacts ==
  ASSUME NEW list, IsList(list), NEW i \in DOMAIN list
  PROVE  LET new == Used(list, i) IN
         /\ Len(list) \in Nat /\ DOMAIN list = 1 .. Len(list) /\ IsList(new)
         /\ list[i].refcount = 1 =>
              /\ Len(new) = Len(list) - 1
              /\ \A k \in 1 .. Len(new) : new[k] = IF k < i THEN list[k] ELSE list[k + 1]
         /\ list[i].refcount # 1 =>
              /\ Len(new) = Len(list)
              /\ \A k \in 1 .. Len(new) :
                   /\ new[k].value = list[k].value
                   /\ new[k].refcount = IF k = i /\ list[k].refcount > WILL_RETURN_ONCE
                                        THEN list[k].refcount - 1 ELSE list[k].refcount
<1>1. PICK S : list \in Seq(S)
  BY DEF IsList, IsSequence
<1>2. DOMAIN list = 1 .. Len(list) /\ Len(list) \in Nat
  BY <1>1, LenProperties
<1>3. CASE list[i].refcount = 1
  <2>1. Used(list, i) = RemoveAt(list, i)
    BY <1>3 DEF Used
  <2>2. IsList(Used(list, i))
    BY ListUsed
  <2>3. /\ Len(RemoveAt(list, i)) = Len(list) - 1
        /\ \A k \in 1 .. Len(list) - 1 :
             RemoveAt(list, i)[k] = IF k < i THEN list[k] ELSE list[k + 1]
    BY <1>1, <1>2, RemoveAtFacts
  <2> QED BY <1>2, <1>3, <2>1, <2>2, <2>3
<1>4. CASE list[i].refcount # 1 /\ list[i].refcount > WILL_RETURN_ONCE
  <2> DEFINE node == [list[i] EXCEPT !.refcount = @ - 1]
             new == [list EXCEPT ![i] = node]
  <2>1. list[i] = ListNode(list[i].value, list[i].refcount)
    BY DEF IsList
  <2>2. node = ListNode(list[i].value, list[i].refcount - 1)
    BY <2>1 DEF ListNode
  <2>3. node.value = list[i].value /\ node.refcount = list[i].refcount - 1
    BY <2>2 DEF ListNode
  <2> HIDE DEF node
  <2>4. Len(new) = Len(list)
    <3>1. list \in Seq(S \union {node})
      BY <1>1, SeqMonotonic
    <3>2. new \in Seq(S \union {node}) /\ DOMAIN new = 1 .. Len(list)
      BY <1>2, <3>1, ExceptSeq
    <3> QED BY <1>2, <3>2, LenProperties
  <2>5. Used(list, i) = new
    BY <1>4, Zenon DEF Used, new, node
  <2>6. \A k \in 1 .. Len(list) : new[k] = IF k = i THEN node ELSE list[k]
    BY <1>2
  <2> HIDE DEF new
  <2> QED BY <1>2, <1>4, <2>3, <2>4, <2>5, <2>6, ListUsed
<1>5. CASE list[i].refcount # 1 /\ ~(list[i].refcount > WILL_RETURN_ONCE)
  BY <1>2, <1>5, ListUsed DEF Used
<1> QED BY <1>3, <1>4, <1>5

(***************************************************************************)
(* Lists and declarations, as one call more is made.                       *)
(***************************************************************************)
Accounting(calls, declared, used, list, node, charge) ==
  /\ IsSequence(calls) /\ declared \subseteq DOMAIN calls /\ used \subseteq DOMAIN calls
  /\ \A j \in declared : calls[j].count \in Counts
  /\ IsList(list)
  /\ node \in [1 .. Len(list) -> declared] /\ charge \in [used -> declared]
  /\ Accounts(calls, declared, used, list, node, charge)

\* Of any kind.
LEMMA AccountsSame ==
  ASSUME NEW calls, NEW declared, NEW used, NEW list, NEW node, NEW charge,
         Accounting(calls, declared, used, list, node, charge), NEW op
  PROVE  Accounting(Append(calls, op), declared, used, list, node, charge)
<1> DEFINE more == Append(calls, op)
<1>1. /\ \A i \in DOMAIN calls : more[i] = calls[i]
      /\ DOMAIN calls \subseteq DOMAIN more /\ IsSequence(more)
  BY CallAdded, SequenceFacts DEF Accounting
<1> HIDE DEF more
<1>2. \A j \in declared : more[j] = calls[j]
  BY <1>1 DEF Accounting
<1>3. \A k \in used : more[k] = calls[k] /\ charge[k] \in declared
  BY <1>1 DEF Accounting
<1>4. \A k \in 1 .. Len(list) : node[k] \in declared
  BY DEF Accounting
<1>5. Accounts(more, declared, used, list, node, charge)
  BY <1>2, <1>3, <1>4 DEF Accounting, Accounts
<1>6. Accounting(more, declared, used, list, node, charge)
  BY <1>1, <1>2, <1>5 DEF Accounting
<1> QED BY <1>6 DEF more

\* The nodes, with one for declaration n.
Extended(node, length, n) == [k \in 1 .. length + 1 |-> IF k <= length THEN node[k] ELSE n]

\* A declaration gets the last node.
OneNodeMore(used, list, node, charge, n, longer, new) ==
  /\ Len(longer) = Len(list) + 1 /\ Len(list) \in Nat
  /\ Range(new) = Range(node) \union {n}
  /\ UsesOf(used, charge, n) = {}

LEMMA AccountsAdded ==
  ASSUME NEW calls, NEW declared, NEW used, NEW list, NEW node, NEW charge,
         Accounting(calls, declared, used, list, node, charge),
         NEW op, op.count \in Counts
  PROVE  LET n      == Len(calls) + 1
             new    == Extended(node, Len(list), n)
             longer == list_add_value(list, Value(op), op.count)
         IN  /\ Accounting(Append(calls, op), declared \union {n}, used, longer, new, charge)
             /\ OneNodeMore(used, list, node, charge, n, longer, new)
<1> DEFINE n      == Len(calls) + 1
           new    == Extended(node, Len(list), n)
           more   == Append(calls, op)
           longer == list_add_value(list, Value(op), op.count)
           all    == declared \union {n}
<1>1. Accounting(more, declared, used, list, node, charge)
  BY AccountsSame
<1>2. /\ n \notin DOMAIN calls /\ more[n] = op /\ n \in Nat
      /\ \A i \in DOMAIN calls : i < n
      /\ DOMAIN calls \subseteq Nat
      /\ DOMAIN more = DOMAIN calls \union {n}
  BY CallAdded DEF Accounting
<1>3. /\ Len(list) \in Nat /\ Len(longer) = Len(list) + 1 /\ IsList(longer)
      /\ \A k \in 1 .. Len(list) : longer[k] = list[k]
      /\ longer[Len(list) + 1].value = Value(op) /\ longer[Len(list) + 1].refcount = op.count
  <2>1. IsList(longer)
    BY ListAdded DEF Accounting
  <2>2. longer = Append(list, ListNode(Value(op), op.count))
    BY DEF list_add_value
  <2>3. IsSequence(list)
    BY DEF Accounting, IsList
  <2> HIDE DEF longer
  <2> QED BY <2>1, <2>2, <2>3, SequenceFacts DEF ListNode
<1>4. /\ new \in [1 .. Len(longer) -> all] /\ new[Len(list) + 1] = n
      /\ \A k \in 1 .. Len(list) : new[k] = node[k] /\ new[k] \in declared
  <2>1. new = [k \in 1 .. Len(list) + 1 |-> IF k <= Len(list) THEN node[k] ELSE n]
    BY DEF Extended
  <2>2. \A k \in 1 .. Len(list) : node[k] \in declared
    BY <1>1 DEF Accounting
  <2>3. Len(list) + 1 \in 1 .. Len(list) + 1 /\ ~(Len(list) + 1 <= Len(list))
    BY <1>3
  <2>4. \A k \in 1 .. Len(list) + 1 : k \notin 1 .. Len(list) => ~(k <= Len(list))
    BY <1>3
  <2> HIDE DEF new
  <2>5. \A k \in 1 .. Len(list) : new[k] = node[k]
    BY <1>3, <2>1
  <2>6. new[Len(list) + 1] = n
    BY <2>1, <2>3
  <2>7. \A k \in 1 .. Len(list) + 1 : new[k] \in all
    BY <2>1, <2>2, <2>4, <2>5
  <2> QED BY <1>3, <2>1, <2>2, <2>5, <2>6, <2>7
<1>5. DOMAIN node = 1 .. Len(list) /\ DOMAIN new = 1 .. Len(list) + 1
  BY <1>1, <1>3 DEF Accounting, Extended
<1> HIDE DEF n, new, more, longer
<1>6. Range(new) = Range(node) \union {n}
  BY <1>3, <1>4, <1>5 DEF Range
<1>7. UsesOf(used, charge, n) = {}
  BY <1>1, <1>2 DEF UsesOf, Accounting
<1>8. IsSequence(more) /\ all \subseteq DOMAIN more /\ used \subseteq DOMAIN more
  BY <1>1, <1>2 DEF Accounting
<1>9. \A j \in all : more[j].count \in Counts
  BY <1>1, <1>2 DEF Accounting
<1>10. charge \in [used -> all]
  BY <1>1 DEF Accounting
<1>11. Accounts(more, all, used, longer, new, charge)
  <2>1. Accounts(more, declared, used, list, node, charge)
    BY <1>1 DEF Accounting
  <2>2. ASSUME NEW k \in 1 .. Len(longer), NEW l \in 1 .. Len(longer), k < l
        PROVE  new[k] < new[l]
    <3>1. CASE l \in 1 .. Len(list)
      <4>1. k \in 1 .. Len(list)
        BY <1>3, <2>2, <3>1
      <4> QED BY <1>4, <2>1, <2>2, <3>1, <4>1 DEF Accounts
    <3>2. CASE l = Len(list) + 1
      <4>1. k \in 1 .. Len(list)
        BY <1>3, <2>2, <3>2
      <4>2. new[k] \in DOMAIN calls
        BY <1>4, <4>1 DEF Accounting
      <4> QED BY <1>2, <1>4, <3>2, <4>2
    <3> QED BY <1>3, <3>1, <3>2
  <2>3. Left(op.count, op.count, {})
    BY FS_EmptySet DEF Left, Counts
  <2>4. ASSUME NEW k \in 1 .. Len(longer)
        PROVE  /\ longer[k].value = Value(more[new[k]])
               /\ Left(more[new[k]].count, longer[k].refcount, UsesOf(used, charge, new[k]))
    <3>1. CASE k \in 1 .. Len(list)
      BY <1>3, <1>4, <2>1, <3>1 DEF Accounts
    <3>2. CASE k = Len(list) + 1
      BY <1>2, <1>3, <1>4, <1>7, <2>3, <3>2
    <3> QED BY <1>3, <3>1, <3>2
  <2>5. all \ Range(new) \subseteq declared \ Range(node)
    BY <1>6
  <2> QED BY <2>1, <2>2, <2>4, <2>5 DEF Accounts
<1>12. Accounting(more, all, used, longer, new, charge)
  BY <1>3, <1>4, <1>8, <1>9, <1>10, <1>11 DEF Accounting
<1>13. OneNodeMore(used, list, node, charge, n, longer, new)
  BY <1>3, <1>6, <1>7 DEF OneNodeMore
<1> QED BY <1>12, <1>13 DEF n, new, more, longer

\* The nodes without node i.
Omitting(node, length, i) == [k \in 1 .. length - 1 |-> IF k < i THEN node[k] ELSE node[k + 1]]

OneNodeLess(S, length, node, i, new) ==
  /\ new \in [1 .. length - 1 -> S]
  /\ \A k, l \in 1 .. length - 1 : k < l => new[k] < new[l]
  /\ Range(new) = Range(node) \ {node[i]}
  /\ \A k \in 1 .. length - 1 :
       new[k] # node[i] /\ new[k] = IF k < i THEN node[k] ELSE node[k + 1]

LEMMA OmittingFacts ==
  ASSUME NEW S \in SUBSET Nat, NEW length \in Nat, NEW node \in [1 .. length -> S],
         \A k, l \in 1 .. length : k < l => node[k] < node[l],
         NEW i \in 1 .. length
  PROVE  OneNodeLess(S, length, node, i, Omitting(node, length, i))
<1> DEFINE new == Omitting(node, length, i)
           old(k) == IF k < i THEN k ELSE k + 1
<1>1. \A k \in 1 .. length - 1 : old(k) \in 1 .. length /\ old(k) # i
  OBVIOUS
<1>2. \A k, l \in 1 .. length - 1 : k < l => old(k) < old(l)
  OBVIOUS
<1>3. \A k \in 1 .. length - 1 : new[k] = node[old(k)]
  BY DEF Omitting
<1>4. ASSUME NEW l \in 1 .. length, l # i
      PROVE  \E k \in 1 .. length - 1 : old(k) = l
  <2>1. CASE l < i
    <3>1. l \in 1 .. length - 1 /\ old(l) = l
      BY <2>1
    <3> QED BY <3>1
  <2>2. CASE l > i
    <3>1. l - 1 \in 1 .. length - 1 /\ old(l - 1) = l
      BY <2>2
    <3> QED BY <3>1
  <2> QED BY <1>4, <2>1, <2>2
<1>5. \A k, l \in 1 .. length : k # l => node[k] # node[l]
  <2>1. SUFFICES ASSUME NEW k \in 1 .. length, NEW l \in 1 .. length, k # l PROVE node[k] # node[l]
    OBVIOUS
  <2>2. k < l \/ l < k
    BY <2>1
  <2>3. node[k] < node[l] \/ node[l] < node[k]
    BY <2>2
  <2>4. node[k] \in Nat /\ node[l] \in Nat
    OBVIOUS
  <2> QED BY <2>3, <2>4
<1>6. DOMAIN new = 1 .. length - 1 /\ DOMAIN node = 1 .. length
  BY DEF Omitting
<1>7. new = [k \in 1 .. length - 1 |-> IF k < i THEN node[k] ELSE node[k + 1]]
  BY DEF Omitting
<1>8. \A k \in 1 .. length - 1 : new[k] = IF k < i THEN node[k] ELSE node[k + 1]
  BY <1>7
<1> HIDE DEF new, old
<1>9. \A k \in 1 .. length - 1 : new[k] \in S /\ new[k] # node[i]
  BY <1>1, <1>3, <1>5
<1>10. new \in [1 .. length - 1 -> S]
  <2>1. new = [k \in 1 .. length - 1 |-> new[k]]
    BY <1>7
  <2> QED BY <1>9, <2>1
<1>11. \A k, l \in 1 .. length - 1 : k < l => new[k] < new[l]
  BY <1>1, <1>2, <1>3
<1>12. Range(new) = Range(node) \ {node[i]}
  <2>1. ASSUME NEW x \in Range(new) PROVE x \in Range(node) \ {node[i]}
    <3>1. PICK k \in 1 .. length - 1 : x = new[k]
      BY <1>6 DEF Range
    <3> QED BY <1>1, <1>3, <1>6, <1>9, <3>1 DEF Range
  <2>2. ASSUME NEW x \in Range(node), x # node[i] PROVE x \in Range(new)
    <3>1. PICK l \in 1 .. length : x = node[l]
      BY <1>6 DEF Range
    <3>2. PICK k \in 1 .. length - 1 : old(k) = l
      BY <1>4, <2>2, <3>1
    <3> QED BY <1>3, <1>6, <3>1, <3>2 DEF Range
  <2> QED BY <2>1, <2>2
<1>13. OneNodeLess(S, length, node, i, new)
  BY <1>8, <1>9, <1>10, <1>11, <1>12 DEF OneNodeLess
<1> QED BY <1>13 DEF new

\* The nodes that stay after a use of node i.
NodesKept(list, i, node, less, nodes) ==
  /\ Range(nodes) \subseteq Range(node)
  /\ \A k \in 1 .. Len(less) : \E l \in 1 .. Len(list) : l >= k /\ nodes[k] = node[l]
  /\ \A k \in 2 .. Len(less) : i = 1 => nodes[k] # node[1]
  /\ \A j \in Range(node) \ Range(nodes) : j = node[i]

LEMMA AccountsUsed ==
  ASSUME NEW calls, NEW declared, NEW used, NEW list, NEW node, NEW charge,
         Accounting(calls, declared, used, list, node, charge), NEW op,
         NEW i \in DOMAIN list, list[i].refcount # 0, Meets(calls[node[i]], op)
  PROVE  LET n       == Len(calls) + 1
             less    == Used(list, i)
             nodes   == IF list[i].refcount = 1 THEN Omitting(node, Len(list), i) ELSE node
             charges == Charging(used, charge, n, node[i])
         IN  /\ Accounting(Append(calls, op), declared, used \union {n}, less, nodes, charges)
             /\ NodesKept(list, i, node, less, nodes)
<1> DEFINE n       == Len(calls) + 1
           less    == Used(list, i)
           nodes   == IF list[i].refcount = 1 THEN Omitting(node, Len(list), i) ELSE node
           charges == Charging(used, charge, n, node[i])
           more    == Append(calls, op)
           many    == used \union {n}
<1>1. /\ Accounting(more, declared, used, list, node, charge)
      /\ Accounts(more, declared, used, list, node, charge)
  BY AccountsSame DEF Accounting
<1>2. /\ n \notin DOMAIN calls /\ more[n] = op /\ n \in Nat
      /\ \A k \in DOMAIN calls : k < n /\ more[k] = calls[k]
      /\ DOMAIN calls \subseteq Nat
      /\ DOMAIN more = DOMAIN calls \union {n}
  BY CallAdded DEF Accounting
<1>3. /\ Len(list) \in Nat /\ DOMAIN list = 1 .. Len(list) /\ IsList(less)
      /\ list[i].refcount = 1 =>
           /\ Len(less) = Len(list) - 1
           /\ \A k \in 1 .. Len(less) : less[k] = IF k < i THEN list[k] ELSE list[k + 1]
      /\ list[i].refcount # 1 =>
           /\ Len(less) = Len(list)
           /\ \A k \in 1 .. Len(less) :
                /\ less[k].value = list[k].value
                /\ less[k].refcount = IF k = i /\ list[k].refcount > WILL_RETURN_ONCE
                                      THEN list[k].refcount - 1 ELSE list[k].refcount
  BY UsedFacts DEF Accounting
<1>4. /\ node \in [1 .. Len(list) -> declared] /\ node[i] \in declared /\ DOMAIN node = 1 .. Len(list)
      /\ \A k, l \in 1 .. Len(list) : k < l => node[k] < node[l]
      /\ declared \subseteq Nat
  BY <1>1, <1>2, <1>3 DEF Accounting, Accounts
<1>a. Len(less) \in Nat /\ i \in 1 .. Len(list)
  BY <1>3, SequenceFacts DEF IsList
<1>b. list[i].refcount # 1 => 1 .. Len(less) = 1 .. Len(list)
  BY <1>3
<1>5. list[i].refcount = 1 =>
        /\ nodes \in [1 .. Len(less) -> declared]
        /\ \A k, l \in 1 .. Len(less) : k < l => nodes[k] < nodes[l]
        /\ Range(nodes) = Range(node) \ {node[i]}
        /\ \A k \in 1 .. Len(less) :
             nodes[k] # node[i] /\ nodes[k] = IF k < i THEN node[k] ELSE node[k + 1]
  <2>1. SUFFICES ASSUME list[i].refcount = 1
                 PROVE  /\ nodes \in [1 .. Len(less) -> declared]
                        /\ \A k, l \in 1 .. Len(less) : k < l => nodes[k] < nodes[l]
                        /\ Range(nodes) = Range(node) \ {node[i]}
                        /\ \A k \in 1 .. Len(less) :
                             nodes[k] # node[i] /\ nodes[k] = IF k < i THEN node[k] ELSE node[k + 1]
    OBVIOUS
  <2>2. nodes = Omitting(node, Len(list), i) /\ Len(less) = Len(list) - 1
    BY <1>3, <2>1
  <2> HIDE DEF nodes, less
  <2>3. declared \in SUBSET Nat /\ Len(list) \in Nat
    BY <1>3, <1>4
  <2>4. OneNodeLess(declared, Len(list), node, i, nodes)
    BY <1>4, <1>a, <2>2, <2>3, OmittingFacts
  <2> QED BY <2>2, <2>4 DEF OneNodeLess
<1>6. list[i].refcount # 1 => nodes = node
  OBVIOUS
<1>7. /\ charges \in [many -> declared]
      /\ charges[n] = node[i] /\ \A k \in used : charges[k] = charge[k]
      /\ UsesOf(many, charges, node[i]) = UsesOf(used, charge, node[i]) \union {n}
      /\ Cardinality(UsesOf(many, charges, node[i])) = Cardinality(UsesOf(used, charge, node[i])) + 1
      /\ \A j : j # node[i] => UsesOf(many, charges, j) = UsesOf(used, charge, j)
  <2>1. IsSequence(calls) /\ used \subseteq DOMAIN calls /\ charge \in [used -> declared]
    BY DEF Accounting
  <2>2. n \notin used
    BY <1>2, <2>1
  <2>3. charges = Charging(used, charge, n, node[i]) /\ many = used \union {n}
    OBVIOUS
  <2> HIDE DEF n, less, nodes, more, charges, many
  <2>4. node[i] \in declared
    BY <1>4
  <2>5. OneUseMore(declared, used, charge, n, node[i], charges)
    BY <2>1, <2>2, <2>3, <2>4, UseAdded
  <2> QED BY <2>3, <2>5 DEF OneUseMore
<1> HIDE DEF n, less, nodes, charges, more, many
<1>8. \A k, l \in 1 .. Len(list) : node[k] = node[l] => k = l
  <2>1. SUFFICES ASSUME NEW k \in 1 .. Len(list), NEW l \in 1 .. Len(list), k # l
                 PROVE  node[k] # node[l]
    OBVIOUS
  <2>2. k < l \/ l < k
    BY <2>1
  <2>3. node[k] < node[l] \/ node[l] < node[k]
    BY <1>4, <2>2
  <2>4. node[k] \in Nat /\ node[l] \in Nat
    BY <1>4
  <2> QED BY <2>3, <2>4
<1>9. list[i].refcount \in Counts /\ i \in 1 .. Len(list)
  BY <1>3 DEF Accounting, IsList
<1>10. /\ list[i].refcount = 1 =>
            /\ more[node[i]].count > 0
            /\ Cardinality(UsesOf(many, charges, node[i])) = more[node[i]].count
       /\ list[i].refcount # 1 =>
            Left(more[node[i]].count,
                 IF list[i].refcount > WILL_RETURN_ONCE THEN list[i].refcount - 1
                 ELSE list[i].refcount,
                 UsesOf(many, charges, node[i]))
  <2>1. Left(more[node[i]].count, list[i].refcount, UsesOf(used, charge, node[i]))
    BY <1>1, <1>9 DEF Accounts
  <2>2. Cardinality(UsesOf(used, charge, node[i])) \in Nat
    BY UsesFinite DEF Accounting
  <2>3. UsesOf(many, charges, node[i]) # {}
    BY <1>7
  <2> QED BY <1>7, <1>9, <2>1, <2>2, <2>3, LeftAfterUse
<1>11. nodes \in [1 .. Len(less) -> declared]
  BY <1>3, <1>4, <1>5, <1>6
<1>12. \A k, l \in 1 .. Len(less) : k < l => nodes[k] < nodes[l]
  BY <1>3, <1>4, <1>5, <1>6
<1>13. Range(nodes) \subseteq Range(node) /\ \A j \in Range(node) \ Range(nodes) : j = node[i]
  BY <1>5, <1>6
<1>14. \A k \in 1 .. Len(less) : \E l \in 1 .. Len(list) : l >= k /\ nodes[k] = node[l]
  <2>1. SUFFICES ASSUME NEW k \in 1 .. Len(less)
                 PROVE  \E l \in 1 .. Len(list) : l >= k /\ nodes[k] = node[l]
    OBVIOUS
  <2>2. CASE list[i].refcount = 1
    <3>1. k \in 1 .. Len(list) /\ k + 1 \in 1 .. Len(list) /\ k >= k /\ k + 1 >= k
      BY <1>3, <1>a, <2>2
    <3> QED BY <1>5, <2>2, <3>1
  <2>3. CASE list[i].refcount # 1
    <3>1. k \in 1 .. Len(list) /\ k >= k
      BY <1>a, <1>b, <2>3
    <3> QED BY <1>6, <2>3, <3>1
  <2> QED BY <2>2, <2>3
<1>15. \A k \in 2 .. Len(less) : i = 1 => nodes[k] # node[1]
  <2>1. SUFFICES ASSUME NEW k \in 2 .. Len(less), i = 1 PROVE nodes[k] # node[1]
    OBVIOUS
  <2>2. k \in 1 .. Len(less) /\ k > 1
    BY <1>a
  <2>3. CASE list[i].refcount = 1
    BY <1>5, <2>1, <2>2, <2>3
  <2>4. CASE list[i].refcount # 1
    <3>1. k \in 1 .. Len(list) /\ k # 1 /\ 1 \in 1 .. Len(list)
      BY <1>a, <1>b, <2>1, <2>2, <2>4
    <3> QED BY <1>6, <1>8, <2>4, <3>1
  <2> QED BY <2>3, <2>4
<1>16. ASSUME NEW k \in 1 .. Len(less)
       PROVE  /\ less[k].value = Value(more[nodes[k]])
              /\ Left(more[nodes[k]].count, less[k].refcount, UsesOf(many, charges, nodes[k]))
  <2>1. \A l \in 1 .. Len(list) :
          /\ list[l].value = Value(more[node[l]])
          /\ Left(more[node[l]].count, list[l].refcount, UsesOf(used, charge, node[l]))
          /\ l # i => UsesOf(many, charges, node[l]) = UsesOf(used, charge, node[l])
    BY <1>1, <1>7, <1>8, <1>9 DEF Accounts
  <2>2. CASE list[i].refcount = 1
    <3>1. \E l \in 1 .. Len(list) : l # i /\ less[k] = list[l] /\ nodes[k] = node[l]
      <4>1. CASE k < i
        <5>1. k \in 1 .. Len(list) /\ k # i
          BY <1>3, <2>2, <4>1
        <5> QED BY <1>3, <1>5, <2>2, <4>1, <5>1
      <4>2. CASE ~(k < i)
        <5>1. k + 1 \in 1 .. Len(list) /\ k + 1 # i
          BY <1>3, <1>9, <2>2, <4>2
        <5> QED BY <1>3, <1>5, <2>2, <4>2, <5>1
      <4> QED BY <4>1, <4>2
    <3> QED BY <2>1, <3>1
  <2>3. CASE list[i].refcount # 1
    <3>1. k \in 1 .. Len(list) /\ nodes[k] = node[k]
      BY <1>3, <1>6, <2>3
    <3>2. CASE k = i
      <4>1. less[k].value = list[i].value
            /\ less[k].refcount = IF list[i].refcount > WILL_RETURN_ONCE THEN list[i].refcount - 1
                                  ELSE list[i].refcount
        BY <1>3, <2>3, <3>2
      <4> QED BY <1>10, <2>1, <2>3, <3>1, <3>2, <4>1
    <3>3. CASE k # i
      <4>1. less[k].value = list[k].value /\ less[k].refcount = list[k].refcount
        BY <1>3, <2>3, <3>3
      <4> QED BY <2>1, <3>1, <3>3, <4>1
    <3> QED BY <3>2, <3>3
  <2> QED BY <2>2, <2>3
<1>17. ASSUME NEW j \in declared \ Range(nodes)
       PROVE  more[j].count > 0 /\ Cardinality(UsesOf(many, charges, j)) = more[j].count
  <2>1. CASE j = node[i]
    <3>1. node[i] \in Range(node)
      BY <1>4, <1>9 DEF Range
    <3>2. list[i].refcount = 1
      BY <1>6, <1>17, <2>1, <3>1
    <3> QED BY <1>10, <2>1, <3>2
  <2>2. CASE j # node[i]
    <3>1. j \in declared \ Range(node)
      BY <1>13, <1>17, <2>2
    <3> QED BY <1>1, <1>7, <2>2, <3>1 DEF Accounts
  <2> QED BY <2>1, <2>2
<1>18. ASSUME NEW k \in many
       PROVE  charges[k] < k /\ Meets(more[charges[k]], more[k])
  <2>1. CASE k \in used
    BY <1>1, <1>7, <2>1 DEF Accounts
  <2>2. CASE k = n
    <3>1. node[i] \in DOMAIN calls
      BY <1>4 DEF Accounting
    <3>2. node[i] < n /\ more[node[i]] = calls[node[i]]
      BY <1>2, <3>1
    <3> QED BY <1>2, <1>7, <2>2, <3>2
  <2> QED BY <2>1, <2>2 DEF many
<1>19. Accounts(more, declared, many, less, nodes, charges)
  BY <1>12, <1>16, <1>17, <1>18 DEF Accounts
<1>20. many \subseteq DOMAIN more
  BY <1>2 DEF Accounting, many
<1>21. Accounting(more, declared, many, less, nodes, charges)
  BY <1>1, <1>3, <1>7, <1>11, <1>19, <1>20 DEF Accounting
<1>22. NodesKept(list, i, node, less, nodes)
  BY <1>13, <1>14, <1>15 DEF NodesKept
<1> QED BY <1>21, <1>22 DEF n, less, nodes, charges, more, many

(***************************************************************************)
(* The values of one symbol.                                               *)
(***************************************************************************)
Listed(calls, declared, used, list) ==
  /\ IsSequence(calls) /\ declared \subseteq DOMAIN calls /\ used \subseteq DOMAIN calls
  /\ \A j \in declared : calls[j].count \in Counts
  /\ IsList(list)

ValuesListed(calls, declared, used, list) ==
  Listed(calls, declared, used, list) /\ ValuesAccounted(calls, declared, used, list)

LEMMA ValuesListedFacts ==
  ASSUME NEW calls, NEW declared, NEW used, NEW list
  PROVE  ValuesListed(calls, declared, used, list)
           <=> \E node, charge : /\ Accounting(calls, declared, used, list, node, charge)
                                 /\ InTurn(declared, used, list, node, charge)
BY DEF ValuesListed, Listed, ValuesAccounted, Accounting

\* A call that is not about it changes nothing,
LEMMA ValuesSame ==
  ASSUME NEW calls, NEW declared, NEW used, NEW list, NEW op,
         ValuesListed(calls, declared, used, list)
  PROVE  ValuesListed(Append(calls, op), declared, used, list)
<1>1. PICK node, charge : /\ Accounting(calls, declared, used, list, node, charge)
                          /\ InTurn(declared, used, list, node, charge)
  BY ValuesListedFacts
<1>2. Accounting(Append(calls, op), declared, used, list, node, charge)
  BY <1>1, AccountsSame
<1> QED BY <1>1, <1>2, ValuesListedFacts

\* a declaration adds the last value,
LEMMA ValuesAdded ==
  ASSUME NEW calls, NEW declared, NEW used, NEW list, NEW op, op.count \in Counts,
         ValuesListed(calls, declared, used, list)
  PROVE  ValuesListed(Append(calls, op), declared \union {Len(calls) + 1}, used,
                      list_add_value(list, Value(op), op.count))
<1> DEFINE n == Len(calls) + 1
           longer == list_add_value(list, Value(op), op.count)
           all == declared \union {n}
<1>1. PICK node, charge : /\ Accounting(calls, declared, used, list, node, charge)
                          /\ InTurn(declared, used, list, node, charge)
  BY ValuesListedFacts
<1> DEFINE new == Extended(node, Len(list), n)
<1>2. /\ Accounting(Append(calls, op), all, used, longer, new, charge)
      /\ Len(longer) = Len(list) + 1 /\ Len(list) \in Nat
      /\ Range(new) = Range(node) \union {n} /\ UsesOf(used, charge, n) = {}
  <2>1. /\ Accounting(Append(calls, op), all, used, longer, new, charge)
        /\ OneNodeMore(used, list, node, charge, n, longer, new)
    BY <1>1, AccountsAdded
  <2> QED BY <2>1 DEF OneNodeMore
<1>3. /\ new[Len(list) + 1] = n
      /\ \A k \in 1 .. Len(list) : new[k] = node[k]
  BY <1>2 DEF Extended
<1>4. declared \subseteq DOMAIN calls /\ \A j \in DOMAIN calls : j < n
  BY <1>1, CallAdded DEF Accounting
<1> HIDE DEF n, longer, all, new
<1>5. \A j \in all \ Range(new) : \A k \in 1 .. Len(longer) : j < new[k]
  <2>1. SUFFICES ASSUME NEW j \in all \ Range(new), NEW k \in 1 .. Len(longer)
                 PROVE  j < new[k]
    OBVIOUS
  <2>2. j \in declared \ Range(node)
    BY <1>2, <2>1 DEF all
  <2>3. CASE k \in 1 .. Len(list)
    BY <1>1, <1>3, <2>2, <2>3 DEF InTurn
  <2>4. CASE k = Len(list) + 1
    BY <1>3, <1>4, <2>2, <2>4
  <2> QED BY <1>2, <2>3, <2>4
<1>6. \A k \in 2 .. Len(longer) : UsesOf(used, charge, new[k]) = {}
  <2>1. SUFFICES ASSUME NEW k \in 2 .. Len(longer) PROVE UsesOf(used, charge, new[k]) = {}
    OBVIOUS
  <2>2. CASE k \in 1 .. Len(list)
    <3>1. k \in 2 .. Len(list)
      BY <1>2, <2>1, <2>2
    <3> QED BY <1>1, <1>3, <2>2, <3>1 DEF InTurn
  <2>3. CASE k = Len(list) + 1
    BY <1>2, <1>3, <2>3
  <2> QED BY <1>2, <2>2, <2>3
<1>7. InTurn(all, used, longer, new, charge)
  BY <1>1, <1>5, <1>6 DEF InTurn
<1>8. ValuesListed(Append(calls, op), all, used, longer)
  BY <1>2, <1>7, ValuesListedFacts
<1> QED BY <1>8 DEF n, longer, all

\* and a use takes the first.
LEMMA ValuesUsed ==
  ASSUME NEW calls, NEW declared, NEW used, NEW list, NEW op,
         ValuesListed(calls, declared, used, list),
         list # <<>>, list[1].refcount # 0,
         \A j \in declared : Value(calls[j]) = list[1].value => Meets(calls[j], op)
  PROVE  ValuesListed(Append(calls, op), declared, used \union {Len(calls) + 1}, Used(list, 1))
<1> DEFINE n == Len(calls) + 1
           less == Used(list, 1)
           many == used \union {n}
<1>1. PICK node, charge : /\ Accounting(calls, declared, used, list, node, charge)
                          /\ InTurn(declared, used, list, node, charge)
  BY ValuesListedFacts
<1> DEFINE nodes == IF list[1].refcount = 1 THEN Omitting(node, Len(list), 1) ELSE node
           charges == Charging(used, charge, n, node[1])
<1>2. 1 \in DOMAIN list /\ Len(list) \in Nat /\ DOMAIN list = 1 .. Len(list)
  <2>1. PICK S : list \in Seq(S)
    BY <1>1 DEF Accounting, IsList, IsSequence
  <2> QED BY <2>1, EmptySeq, LenProperties
<1>3. /\ node[1] \in declared /\ node \in [1 .. Len(list) -> declared]
      /\ Value(calls[node[1]]) = list[1].value
  BY <1>1, <1>2 DEF Accounting, Accounts
<1>4. Meets(calls[node[1]], op)
  BY <1>3
<1>5. /\ Accounting(Append(calls, op), declared, many, less, nodes, charges)
      /\ NodesKept(list, 1, node, less, nodes)
  BY <1>1, <1>2, <1>4, AccountsUsed
<1>6. /\ n \notin used /\ IsSequence(calls) /\ used \subseteq DOMAIN calls
      /\ charge \in [used -> declared]
      /\ declared \subseteq Nat /\ used \subseteq Nat /\ \A k \in used : k < n
  BY <1>1, CallAdded DEF Accounting
<1>7. OneUseMore(declared, used, charge, n, node[1], charges)
  <2> HIDE DEF n
  <2> QED BY <1>3, <1>6, UseAdded
<1>8. n \in Nat
  BY <1>6, CallAdded
<1> HIDE DEF n, less, many, nodes, charges
<1>9. \A k \in used : charge[k] \in declared /\ charge[k] <= node[1]
  <2>1. SUFFICES ASSUME NEW k \in used PROVE charge[k] <= node[1]
    BY <1>6
  <2>2. charge[k] \in declared /\ charge[k] \in Nat /\ node[1] \in Nat
    BY <1>3, <1>6
  <2>3. CASE charge[k] \in Range(node)
    <3>1. PICK l \in 1 .. Len(list) : charge[k] = node[l]
      BY <1>3, <2>3 DEF Range
    <3>2. k \in UsesOf(used, charge, node[l])
      BY <3>1 DEF UsesOf
    <3>3. l \notin 2 .. Len(list)
      BY <1>1, <3>2 DEF InTurn
    <3>4. l = 1
      BY <1>2, <3>3
    <3> QED BY <2>2, <3>1, <3>4
  <2>4. CASE charge[k] \notin Range(node)
    <3>1. charge[k] < node[1]
      BY <1>1, <1>2, <2>2, <2>4 DEF InTurn
    <3> QED BY <2>2, <3>1
  <2> QED BY <2>3, <2>4
<1>10. \A k, l \in many : k < l => charges[k] <= charges[l]
  <2>1. SUFFICES ASSUME NEW k \in many, NEW l \in many, k < l PROVE charges[k] <= charges[l]
    OBVIOUS
  <2>2. k \in used
    BY <1>6, <1>8, <2>1 DEF many
  <2>3. charges[k] = charge[k]
    BY <1>7, <2>2 DEF OneUseMore
  <2>4. CASE l \in used
    BY <1>1, <1>7, <2>1, <2>2, <2>3, <2>4 DEF OneUseMore, InTurn
  <2>5. CASE l = n
    BY <1>7, <1>9, <2>2, <2>3, <2>5 DEF OneUseMore
  <2> QED BY <2>4, <2>5 DEF many
<1>11. \A j \in declared \ Range(nodes) : \A k \in 1 .. Len(less) : j < nodes[k]
  <2>1. SUFFICES ASSUME NEW j \in declared \ Range(nodes), NEW k \in 1 .. Len(less)
                 PROVE  j < nodes[k]
    OBVIOUS
  <2>2. PICK l \in 1 .. Len(list) : l >= k /\ nodes[k] = node[l]
    BY <1>5 DEF NodesKept
  <2>3. CASE j \notin Range(node)
    BY <1>1, <2>1, <2>2, <2>3 DEF InTurn
  <2>4. CASE j \in Range(node)
    <3>1. j = node[1]
      BY <1>5, <2>1, <2>4 DEF NodesKept
    <3>2. nodes[k] \in Range(nodes)
      BY <1>5 DEF Accounting, Range
    <3>3. l # 1
      BY <2>1, <2>2, <3>1, <3>2
    <3>4. 1 < l
      BY <1>2, <3>3
    <3> QED BY <1>1, <1>2, <2>2, <3>1, <3>4 DEF Accounting, Accounts
  <2> QED BY <2>3, <2>4
<1>12. \A k \in 2 .. Len(less) : UsesOf(many, charges, nodes[k]) = {}
  <2>1. SUFFICES ASSUME NEW k \in 2 .. Len(less) PROVE UsesOf(many, charges, nodes[k]) = {}
    OBVIOUS
  <2>2. nodes[k] # node[1]
    BY <1>5 DEF NodesKept
  <2>3. Len(less) \in Nat
    BY <1>5, SequenceFacts DEF Accounting, IsList
  <2>4. k \in 1 .. Len(less) /\ k >= 2
    BY <2>1, <2>3
  <2>5. PICK l \in 1 .. Len(list) : l >= k /\ nodes[k] = node[l]
    BY <1>5, <2>4 DEF NodesKept
  <2>6. l \in 2 .. Len(list)
    BY <1>2, <2>4, <2>5
  <2>7. UsesOf(used, charge, node[l]) = {}
    BY <1>1, <2>6 DEF InTurn
  <2> QED BY <1>7, <2>2, <2>5, <2>7 DEF OneUseMore, many
<1>13. InTurn(declared, many, less, nodes, charges)
  BY <1>10, <1>11, <1>12 DEF InTurn
<1>14. ValuesListed(Append(calls, op), declared, many, less)
  BY <1>5, <1>13, ValuesListedFacts
<1> QED BY <1>14 DEF n, less, many

(***************************************************************************)
(* The order of calls.                                                     *)
(***************************************************************************)
OrderListed(calls, declared, used, list) ==
  Listed(calls, declared, used, list) /\ OrderAccounted(calls, declared, used, list)

LEMMA OrderListedFacts ==
  ASSUME NEW calls, NEW declared, NEW used, NEW list
  PROVE  OrderListed(calls, declared, used, list)
           <=> \E node, charge : /\ Accounting(calls, declared, used, list, node, charge)
                                 /\ PassedOver(calls, declared, used, node, charge)
BY DEF OrderListed, Listed, OrderAccounted, Accounting

\* What was declared before the declaration a call was charged to.
PassedBy(calls, used, node, charge, k, j) ==
  IF calls[j].count > 0 THEN j \notin Range(node) /\ \A l \in used : charge[l] = j => l < k
  ELSE /\ calls[j].function # calls[k].function
       /\ calls[j].count = WILL_RETURN_ALWAYS => \E l \in used : charge[l] = j /\ l < k

LEMMA PassedOverFacts ==
  ASSUME NEW calls, NEW declared, NEW used, NEW node, NEW charge
  PROVE  PassedOver(calls, declared, used, node, charge)
           <=> \A k \in used, j \in declared :
                 j < charge[k] => PassedBy(calls, used, node, charge, k, j)
BY DEF PassedOver, PassedBy

\* A call of another kind changes nothing,
LEMMA OrderSame ==
  ASSUME NEW calls, NEW declared, NEW used, NEW list, NEW op,
         OrderListed(calls, declared, used, list)
  PROVE  OrderListed(Append(calls, op), declared, used, list)
<1> DEFINE more == Append(calls, op)
<1>1. PICK node, charge : /\ Accounting(calls, declared, used, list, node, charge)
                          /\ PassedOver(calls, declared, used, node, charge)
  BY OrderListedFacts
<1>2. Accounting(more, declared, used, list, node, charge)
  BY <1>1, AccountsSame
<1>3. \A j \in declared \union used : more[j] = calls[j]
  BY <1>1, CallAdded DEF Accounting
<1> HIDE DEF more
<1>4. ASSUME NEW k \in used, NEW j \in declared, j < charge[k]
      PROVE  PassedBy(more, used, node, charge, k, j)
  <2>1. PassedBy(calls, used, node, charge, k, j)
    BY <1>1, <1>4, PassedOverFacts
  <2> QED BY <1>3, <2>1 DEF PassedBy
<1>5. PassedOver(more, declared, used, node, charge)
  BY <1>4, PassedOverFacts
<1>6. OrderListed(more, declared, used, list)
  BY <1>2, <1>5, OrderListedFacts
<1> QED BY <1>6 DEF more

\* a declaration adds the last node,
LEMMA OrderAdded ==
  ASSUME NEW calls, NEW declared, NEW used, NEW list, NEW op, op.count \in Counts,
         OrderListed(calls, declared, used, list)
  PROVE  OrderListed(Append(calls, op), declared \union {Len(calls) + 1}, used,
                     list_add_value(list, Value(op), op.count))
<1> DEFINE n == Len(calls) + 1
           longer == list_add_value(list, Value(op), op.count)
           all == declared \union {n}
           more == Append(calls, op)
<1>1. PICK node, charge : /\ Accounting(calls, declared, used, list, node, charge)
                          /\ PassedOver(calls, declared, used, node, charge)
  BY OrderListedFacts
<1> DEFINE new == Extended(node, Len(list), n)
<1>2. /\ Accounting(more, all, used, longer, new, charge)
      /\ Range(new) = Range(node) \union {n}
  <2>1. /\ Accounting(more, all, used, longer, new, charge)
        /\ OneNodeMore(used, list, node, charge, n, longer, new)
    BY <1>1, AccountsAdded
  <2> QED BY <2>1 DEF OneNodeMore
<1>3. /\ \A k \in used : charge[k] \in declared
      /\ \A j \in declared : j < n /\ j \in Nat
      /\ \A j \in declared \union used : more[j] = calls[j]
      /\ n \in Nat
  BY <1>1, CallAdded DEF Accounting
<1> HIDE DEF n, longer, all, more, new
<1>4. ASSUME NEW k \in used, NEW j \in all, j < charge[k]
      PROVE  PassedBy(more, used, new, charge, k, j)
  <2>1. charge[k] \in declared /\ charge[k] < n /\ charge[k] \in Nat
    BY <1>3
  <2>2. j # n
    BY <1>3, <1>4, <2>1
  <2>3. j \in declared
    BY <2>2 DEF all
  <2>4. PassedBy(calls, used, node, charge, k, j)
    BY <1>1, <1>4, <2>3, PassedOverFacts
  <2>5. more[j] = calls[j] /\ more[k] = calls[k]
    BY <1>3, <2>3
  <2> QED BY <1>2, <2>2, <2>4, <2>5 DEF PassedBy
<1>5. PassedOver(more, all, used, new, charge)
  BY <1>4, PassedOverFacts
<1>6. OrderListed(more, all, used, longer)
  BY <1>2, <1>5, OrderListedFacts
<1> QED BY <1>6 DEF n, longer, all, more

\* and a call uses the node that it may.
LEMMA OrderUsed ==
  ASSUME NEW calls, NEW declared, NEW used, NEW list, NEW op,
         OrderListed(calls, declared, used, list),
         NEW i \in Expected(list, op.function), list[i].refcount # 0,
         \A j \in declared : /\ Value(calls[j]) = calls[j].function
                             /\ op.function = calls[j].function => Meets(calls[j], op)
  PROVE  OrderListed(Append(calls, op), declared, used \union {Len(calls) + 1}, Used(list, i))
<1> DEFINE n == Len(calls) + 1
           less == Used(list, i)
           many == used \union {n}
           more == Append(calls, op)
<1>1. PICK node, charge : /\ Accounting(calls, declared, used, list, node, charge)
                          /\ PassedOver(calls, declared, used, node, charge)
  BY OrderListedFacts
<1> DEFINE nodes == IF list[i].refcount = 1 THEN Omitting(node, Len(list), i) ELSE node
           charges == Charging(used, charge, n, node[i])
<1>2. /\ i \in DOMAIN list /\ list[i].value = op.function
      /\ \A k \in 1 .. i - 1 : list[k].value # op.function /\ list[k].refcount < -1
  BY DEF Expected
<1>3. Len(list) \in Nat /\ DOMAIN list = 1 .. Len(list) /\ i \in 1 .. Len(list)
  BY <1>1, <1>2, SequenceFacts DEF Accounting, IsList
<1>4. /\ node \in [1 .. Len(list) -> declared] /\ node[i] \in declared
      /\ \A k \in 1 .. Len(list) :
           /\ list[k].value = calls[node[k]].function
           /\ Left(calls[node[k]].count, list[k].refcount, UsesOf(used, charge, node[k]))
      /\ \A k, l \in 1 .. Len(list) : k < l => node[k] < node[l]
  BY <1>1, <1>3 DEF Accounting, Accounts
<1>5. Meets(calls[node[i]], op)
  BY <1>2, <1>3, <1>4
<1>6. /\ Accounting(more, declared, many, less, nodes, charges)
      /\ NodesKept(list, i, node, less, nodes)
  BY <1>1, <1>2, <1>5, AccountsUsed
<1>7. /\ n \notin used /\ IsSequence(calls) /\ used \subseteq DOMAIN calls
      /\ charge \in [used -> declared]
      /\ declared \subseteq Nat /\ used \subseteq Nat /\ \A k \in used : k < n
      /\ \A j \in declared \union used : more[j] = calls[j]
      /\ more[n] = op /\ n \in Nat
  BY <1>1, CallAdded DEF Accounting
<1>8. OneUseMore(declared, used, charge, n, node[i], charges)
  <2> HIDE DEF n
  <2> QED BY <1>4, <1>7, UseAdded
<1> HIDE DEF n, less, many, more, nodes, charges
<1>9. Range(nodes) \subseteq Range(node) /\ node[i] \in Range(node)
  BY <1>3, <1>4, <1>6 DEF NodesKept, Range
<1>10. ASSUME NEW k \in used, NEW j \in declared, j < charge[k]
       PROVE  PassedBy(more, many, nodes, charges, k, j)
  <2>1. PassedBy(calls, used, node, charge, k, j)
    BY <1>1, <1>10, PassedOverFacts
  <2>2. more[j] = calls[j] /\ more[k] = calls[k]
    BY <1>7
  <2>3. CASE calls[j].count > 0
    <3>1. j \notin Range(node) /\ \A l \in used : charge[l] = j => l < k
      BY <2>1, <2>3 DEF PassedBy
    <3>2. j # node[i]
      BY <1>9, <3>1
    <3>3. \A l \in many : charges[l] = j => l \in used /\ charge[l] = j
      BY <1>8, <3>2 DEF OneUseMore, many
    <3> QED BY <1>9, <2>2, <2>3, <3>1, <3>3 DEF PassedBy
  <2>4. CASE ~(calls[j].count > 0)
    <3>1. /\ calls[j].function # calls[k].function
          /\ calls[j].count = WILL_RETURN_ALWAYS => \E l \in used : charge[l] = j /\ l < k
      BY <2>1, <2>4 DEF PassedBy
    <3>2. \A l \in used : l \in many /\ charges[l] = charge[l]
      BY <1>8 DEF OneUseMore, many
    <3> QED BY <2>2, <2>4, <3>1, <3>2 DEF PassedBy
  <2> QED BY <2>3, <2>4
<1>11. ASSUME NEW j \in declared, j < node[i]
       PROVE  PassedBy(more, many, nodes, charges, n, j)
  <2>1. more[j] = calls[j] /\ more[n] = op
    BY <1>7
  <2>2. j # node[i]
    BY <1>4, <1>7, <1>11
  <2>3. \A l \in many : charges[l] = j <=> l \in used /\ charge[l] = j
    BY <1>7, <1>8, <2>2 DEF OneUseMore, many
  <2>4. \A l \in used : l \in many /\ l < n
    BY <1>7 DEF many
  <2>5. CASE j \notin Range(node)
    <3>1. calls[j].count > 0
      BY <1>1, <2>5 DEF Accounting, Accounts
    <3> QED BY <1>9, <2>1, <2>3, <2>4, <2>5, <3>1 DEF PassedBy
  <2>6. CASE j \in Range(node)
    <3>1. PICK k \in 1 .. Len(list) : j = node[k]
      BY <1>4, <2>6 DEF Range
    <3>2. k < i
      <4>1. node[i] \in Nat /\ j \in Nat
        BY <1>4, <1>7
      <4>2. ~(i < k)
        BY <1>3, <1>4, <1>11, <3>1, <4>1
      <4> QED BY <1>3, <2>2, <3>1, <4>2
    <3>3. k \in 1 .. i - 1
      BY <1>3, <3>2
    <3>4. /\ calls[j].function # op.function /\ list[k].refcount < -1
          /\ Left(calls[j].count, list[k].refcount, UsesOf(used, charge, j))
          /\ list[k].refcount \in Counts
      BY <1>1, <1>2, <1>3, <1>4, <3>1, <3>3 DEF Accounting, IsList
    <3>5. /\ ~(calls[j].count > 0)
          /\ calls[j].count = WILL_RETURN_ALWAYS => UsesOf(used, charge, j) # {}
      BY <3>4 DEF Left, Counts, WILL_RETURN_ALWAYS, WILL_RETURN_ONCE
    <3>6. calls[j].count = WILL_RETURN_ALWAYS => \E l \in many : charges[l] = j /\ l < n
      BY <2>3, <2>4, <3>5 DEF UsesOf
    <3> QED BY <2>1, <3>4, <3>5, <3>6 DEF PassedBy
  <2> QED BY <2>5, <2>6
<1>12. ASSUME NEW k \in many, NEW j \in declared, j < charges[k]
       PROVE  PassedBy(more, many, nodes, charges, k, j)
  <2>1. CASE k \in used
    BY <1>8, <1>10, <1>12, <2>1 DEF OneUseMore
  <2>2. CASE k = n
    BY <1>8, <1>11, <1>12, <2>2 DEF OneUseMore
  <2> QED BY <2>1, <2>2 DEF many
<1>13. PassedOver(more, declared, many, nodes, charges)
  BY <1>12, PassedOverFacts
<1>14. OrderListed(more, declared, many, less)
  BY <1>6, <1>13, OrderListedFacts
<1> QED BY <1>14 DEF n, less, many, more

(***************************************************************************)
(* The three lists, as one call more is made.                              *)
(***************************************************************************)
ResultsListed(calls, map) ==
  \A f \in Symbols : ValuesListed(calls, Given(calls, f), Taken(calls, f), map[f])

ChecksListed(calls, map) ==
  \A p \in Parameters : ValuesListed(calls, Awaited(calls, p), Checks(calls, p), map[p])

CallsListed(calls, list) ==
  OrderListed(calls, Of(calls, "expect_function_call"), Of(calls, "function_called"), list)

\* What a declaration puts in and a use asks for.
LEMMA ValueFacts ==
  ASSUME NEW d
  PROVE  /\ d.call = "will_return" =>
              Value(d) = d.value /\ \A u : Meets(d, u) <=> Holds(u.check, d.value)
         /\ d.call = "expect_check" =>
              Value(d) = d.check /\ \A u : Meets(d, u) <=> Holds(d.check, u.value)
         /\ d.call = "expect_function_call" =>
              Value(d) = d.function /\ \A u : Meets(d, u) <=> u.function = d.function
BY DEF Value, Meets

\* The next value of a symbol.
LEMMA NextValue ==
  ASSUME NEW S, NEW map, DOMAIN map = S, NEW s \in S,
         NEW next, next = get_symbol_value(map, s), next.found
  PROVE  /\ map[s] # <<>> /\ map[s][1].refcount # 0 /\ next.value = map[s][1].value
         /\ DOMAIN next.map = S /\ next.map[s] = Used(map[s], 1)
         /\ \A r \in S : r # s => next.map[r] = map[r]
<1>1. ~(map[s] = <<>> \/ Head(map[s]).refcount = 0)
  BY DEF get_symbol_value
<1>2. next = [found |-> TRUE, value |-> Head(map[s]).value,
              map |-> [map EXCEPT ![s] = Used(map[s], 1)]]
  BY <1>1 DEF get_symbol_value
<1>3. next.value = Head(map[s]).value /\ next.map = [map EXCEPT ![s] = Used(map[s], 1)]
  BY <1>2
<1>4. Head(map[s]) = map[s][1]
  OBVIOUS
<1> QED BY <1>1, <1>3, <1>4

LEMMA NewValue ==
  ASSUME NEW S, NEW map, DOMAIN map = S, NEW s \in S, NEW value, NEW count
  PROVE  LET new == add_symbol_value(map, s, value, count) IN
         /\ DOMAIN new = S /\ new[s] = list_add_value(map[s], value, count)
         /\ \A r \in S : r # s => new[r] = map[r]
<1>1. add_symbol_value(map, s, value, count) = [map EXCEPT ![s] = list_add_value(map[s], value, count)]
  BY DEF add_symbol_value
<1> QED BY <1>1

LEMMA ResultsKept ==
  ASSUME NEW calls, IsSequence(calls), NEW map, DOMAIN map = Symbols, ResultsListed(calls, map),
         NEW op, WellFormed(op), NEW new,
         \/ op.call \notin {"will_return", "mock"} /\ new = map
         \/ /\ op.call = "will_return"
            /\ new = add_symbol_value(map, op.function, op.value, op.count)
         \/ /\ op.call = "mock"
            /\ LET next == get_symbol_value(map, op.function) IN
               next.found /\ Holds(op.check, next.value) /\ new = next.map
  PROVE  ResultsListed(Append(calls, op), new)
<1> DEFINE more == Append(calls, op)
           n == Len(calls) + 1
<1>1. SUFFICES ASSUME NEW f \in Symbols
               PROVE  ValuesListed(more, Given(more, f), Taken(more, f), new[f])
  BY DEF ResultsListed
<1>2. ValuesListed(calls, Given(calls, f), Taken(calls, f), map[f])
  BY DEF ResultsListed
<1>3. /\ Given(more, f)
           = Given(calls, f) \union {i \in {n} : op.call = "will_return" /\ op.function = f}
      /\ Taken(more, f) = Taken(calls, f) \union {i \in {n} : op.call = "mock" /\ op.function = f}
  BY KindsAdded
<1> HIDE DEF n
<1>4. CASE /\ ~(op.call \in {"will_return", "mock"} /\ op.function = f)
           /\ new[f] = map[f]
  <2>1. Given(more, f) = Given(calls, f) /\ Taken(more, f) = Taken(calls, f)
    BY <1>3, <1>4
  <2> QED BY <1>2, <1>4, <2>1, ValuesSame
<1>5. CASE /\ op.call = "will_return" /\ op.function = f
           /\ new = add_symbol_value(map, op.function, op.value, op.count)
  <2>1. Given(more, f) = Given(calls, f) \union {n} /\ Taken(more, f) = Taken(calls, f)
    BY <1>3, <1>5
  <2>2. new[f] = list_add_value(map[f], Value(op), op.count)
    BY <1>5, NewValue, ValueFacts
  <2>3. op.count \in Counts
    BY <1>5 DEF WellFormed, Counts
  <2>4. ValuesListed(more, Given(calls, f) \union {n}, Taken(calls, f),
                     list_add_value(map[f], Value(op), op.count))
    BY <1>2, <2>3, ValuesAdded DEF n
  <2> QED BY <2>1, <2>2, <2>4
<1>6. CASE /\ op.call = "mock" /\ op.function = f
           /\ LET next == get_symbol_value(map, op.function) IN
              next.found /\ Holds(op.check, next.value) /\ new = next.map
  <2>1. Given(more, f) = Given(calls, f) /\ Taken(more, f) = Taken(calls, f) \union {n}
    BY <1>3, <1>6
  <2>2. /\ map[f] # <<>> /\ map[f][1].refcount # 0 /\ Holds(op.check, map[f][1].value)
        /\ new[f] = Used(map[f], 1)
    BY <1>6, NextValue
  <2>3. \A j \in Given(calls, f) : Value(calls[j]) = map[f][1].value => Meets(calls[j], op)
    BY <2>2, ValueFacts DEF Given, Of
  <2>4. ValuesListed(more, Given(calls, f), Taken(calls, f) \union {n}, Used(map[f], 1))
    BY <1>2, <2>2, <2>3, ValuesUsed DEF n
  <2> QED BY <2>1, <2>2, <2>4
<1>7. op.call \in {"will_return", "mock"} => op.function \in Symbols
  BY DEF WellFormed
<1> QED BY <1>4, <1>5, <1>6, <1>7, NewValue, NextValue

LEMMA ChecksKept ==
  ASSUME NEW calls, IsSequence(calls), NEW map, DOMAIN map = Parameters, ChecksListed(calls, map),
         NEW op, WellFormed(op), NEW new,
         \/ op.call \notin {"expect_check", "check_expected"} /\ new = map
         \/ /\ op.call = "expect_check"
            /\ new = add_symbol_value(map, op.parameter, op.check, op.count)
         \/ /\ op.call = "check_expected"
            /\ LET next == get_symbol_value(map, op.parameter) IN
               next.found /\ Holds(next.value, op.value) /\ new = next.map
  PROVE  ChecksListed(Append(calls, op), new)
<1> DEFINE more == Append(calls, op)
           n == Len(calls) + 1
<1>1. SUFFICES ASSUME NEW p \in Parameters
               PROVE  ValuesListed(more, Awaited(more, p), Checks(more, p), new[p])
  BY DEF ChecksListed
<1>2. ValuesListed(calls, Awaited(calls, p), Checks(calls, p), map[p])
  BY DEF ChecksListed
<1>3. /\ Awaited(more, p)
           = Awaited(calls, p) \union {i \in {n} : op.call = "expect_check" /\ op.parameter = p}
      /\ Checks(more, p)
           = Checks(calls, p) \union {i \in {n} : op.call = "check_expected" /\ op.parameter = p}
  BY KindsAdded
<1> HIDE DEF n
<1>4. CASE /\ ~(op.call \in {"expect_check", "check_expected"} /\ op.parameter = p)
           /\ new[p] = map[p]
  <2>1. Awaited(more, p) = Awaited(calls, p) /\ Checks(more, p) = Checks(calls, p)
    BY <1>3, <1>4
  <2> QED BY <1>2, <1>4, <2>1, ValuesSame
<1>5. CASE /\ op.call = "expect_check" /\ op.parameter = p
           /\ new = add_symbol_value(map, op.parameter, op.check, op.count)
  <2>1. Awaited(more, p) = Awaited(calls, p) \union {n} /\ Checks(more, p) = Checks(calls, p)
    BY <1>3, <1>5
  <2>2. new[p] = list_add_value(map[p], Value(op), op.count)
    BY <1>5, NewValue, ValueFacts
  <2>3. op.count \in Counts
    BY <1>5 DEF WellFormed, Counts
  <2>4. ValuesListed(more, Awaited(calls, p) \union {n}, Checks(calls, p),
                     list_add_value(map[p], Value(op), op.count))
    BY <1>2, <2>3, ValuesAdded DEF n
  <2> QED BY <2>1, <2>2, <2>4
<1>6. CASE /\ op.call = "check_expected" /\ op.parameter = p
           /\ LET next == get_symbol_value(map, op.parameter) IN
              next.found /\ Holds(next.value, op.value) /\ new = next.map
  <2>1. Awaited(more, p) = Awaited(calls, p) /\ Checks(more, p) = Checks(calls, p) \union {n}
    BY <1>3, <1>6
  <2>2. /\ map[p] # <<>> /\ map[p][1].refcount # 0 /\ Holds(map[p][1].value, op.value)
        /\ new[p] = Used(map[p], 1)
    BY <1>6, NextValue
  <2>3. \A j \in Awaited(calls, p) : Value(calls[j]) = map[p][1].value => Meets(calls[j], op)
    BY <2>2, ValueFacts DEF Awaited, Of
  <2>4. ValuesListed(more, Awaited(calls, p), Checks(calls, p) \union {n}, Used(map[p], 1))
    BY <1>2, <2>2, <2>3, ValuesUsed DEF n
  <2> QED BY <2>1, <2>2, <2>4
<1>7. op.call \in {"expect_check", "check_expected"} => op.parameter \in Parameters
  BY DEF WellFormed
<1> QED BY <1>4, <1>5, <1>6, <1>7, NewValue, NextValue

LEMMA CallsKept ==
  ASSUME NEW calls, IsSequence(calls), NEW list, CallsListed(calls, list),
         NEW op, WellFormed(op), NEW new,
         \/ op.call \notin {"expect_function_call", "function_called"} /\ new = list
         \/ /\ op.call = "expect_function_call"
            /\ new = list_add_value(list, op.function, op.count)
         \/ /\ op.call = "function_called"
            /\ \E i \in Expected(list, op.function) :
                 list[i].refcount # 0 /\ new = Used(list, i)
  PROVE  CallsListed(Append(calls, op), new)
<1> DEFINE more == Append(calls, op)
           n == Len(calls) + 1
           expect == Of(calls, "expect_function_call")
           made == Of(calls, "function_called")
<1>1. OrderListed(calls, expect, made, list)
  BY DEF CallsListed
<1>2. /\ Of(more, "expect_function_call")
           = expect \union {i \in {n} : op.call = "expect_function_call"}
      /\ Of(more, "function_called") = made \union {i \in {n} : op.call = "function_called"}
  BY OfAdded
<1>3. \A j \in expect : /\ Value(calls[j]) = calls[j].function
                        /\ op.function = calls[j].function => Meets(calls[j], op)
  BY ValueFacts DEF Of
<1> HIDE DEF expect, made
<1>4. CASE op.call \notin {"expect_function_call", "function_called"} /\ new = list
  <2>1. OrderListed(more, expect, made, list)
    BY <1>1, OrderSame
  <2>2. Of(more, "expect_function_call") = expect /\ Of(more, "function_called") = made
    BY <1>2, <1>4
  <2> QED BY <1>4, <2>1, <2>2 DEF CallsListed
<1>5. CASE /\ op.call = "expect_function_call"
           /\ new = list_add_value(list, op.function, op.count)
  <2>1. op.count \in Counts /\ new = list_add_value(list, Value(op), op.count)
    BY <1>5, ValueFacts DEF WellFormed, Counts
  <2>2. OrderListed(more, expect \union {n}, made, new)
    BY <1>1, <2>1, OrderAdded
  <2>3. Of(more, "expect_function_call") = expect \union {n} /\ Of(more, "function_called") = made
    BY <1>2, <1>5
  <2> QED BY <2>2, <2>3 DEF CallsListed
<1>6. CASE /\ op.call = "function_called"
           /\ \E i \in Expected(list, op.function) :
                list[i].refcount # 0 /\ new = Used(list, i)
  <2>1. OrderListed(more, expect, made \union {n}, new)
    BY <1>1, <1>3, <1>6, OrderUsed
  <2>2. Of(more, "expect_function_call") = expect /\ Of(more, "function_called") = made \union {n}
    BY <1>2, <1>6
  <2> QED BY <2>1, <2>2 DEF CallsListed
<1> QED BY <1>4, <1>5, <1>6

(***************************************************************************)
(* The calls of the function that runs.                                    *)
(***************************************************************************)
\* They failed nothing, and the three lists are what is left of what they
\* declared.  Only a parameter's check can be declared for no use.
ValuesInv ==
  global_running_test =>
    /\ \A i \in DOMAIN done :
         WellFormed(done[i]) /\ (Clean(done[i]) \/ done[i].call = "expect_check")
    /\ ResultsListed(done, global_function_result_map)
    /\ ChecksListed(done, global_function_parameter_map)
    /\ CallsListed(done, global_call_ordering)

GetsValue(op) ==
  LET next == get_symbol_value(global_function_result_map, op.function)
  IN  next.found /\ Holds(op.check, next.value)

MeetsCheck(op) ==
  LET next == get_symbol_value(global_function_parameter_map, op.parameter)
  IN  next.found /\ Holds(next.value, op.value)

\* A call after which the function goes on,
Adds(op) ==
  /\ done' = Append(done, op) /\ UNCHANGED <<at, heap_check_point>>
  /\ WellFormed(op) /\ (Clean(op) \/ op.call = "expect_check")
  /\ op.call \in HeapCalls \/ UNCHANGED global_allocated_blocks
  /\ \/ op.call \notin {"will_return", "mock"} /\ UNCHANGED global_function_result_map
     \/ /\ op.call = "will_return"
        /\ global_function_result_map' =
             add_symbol_value(global_function_result_map, op.function, op.value, op.count)
     \/ /\ op.call = "mock" /\ GetsValue(op)
        /\ global_function_result_map' =
             get_symbol_value(global_function_result_map, op.function).map
  /\ \/ op.call \notin {"expect_check", "check_expected"} /\ UNCHANGED global_function_parameter_map
     \/ /\ op.call = "expect_check"
        /\ global_function_parameter_map' =
             add_symbol_value(global_function_parameter_map, op.parameter, op.check, op.count)
     \/ /\ op.call = "check_expected" /\ MeetsCheck(op)
        /\ global_function_parameter_map' =
             get_symbol_value(global_function_parameter_map, op.parameter).map
  /\ \/ op.call \notin {"expect_function_call", "function_called"} /\ UNCHANGED global_call_ordering
     \/ /\ op.call = "expect_function_call"
        /\ global_call_ordering' = list_add_value(global_call_ordering, op.function, op.count)
     \/ /\ op.call = "function_called"
        /\ \E i \in Expected(global_call_ordering, op.function) :
             global_call_ordering' = Used(global_call_ordering, i)

\* and one that fails it.
Breaks(op) ==
  /\ done' = Append(done, op) /\ WellFormed(op) /\ \E skip : Leave(-1, skip)
  /\ \/ ~Clean(op)
     \/ op.call = "mock" /\ ~GetsValue(op)
     \/ op.call = "check_expected" /\ ~MeetsCheck(op)
     \/ op.call = "function_called" /\ Expected(global_call_ordering, op.function) = {}
     \/ op.call \in HeapCalls

LEMMA PlainAdds ==
  ASSUME NEW op, WellFormed(op), Clean(op), Goes(op), UNCHANGED maps,
         op.call \in HeapCalls \/ UNCHANGED heap,
         op.call \notin {"will_return", "mock", "expect_check", "check_expected",
                         "expect_function_call", "function_called"}
  PROVE  Adds(op)
BY DEF Goes, runner, heap, maps, Adds

LEMMA CallingCases ==
  ASSUME CallsWellFormed, TypeInv, Calling
  PROVE  \/ \E op : Adds(op)
         \/ \E op : Breaks(op)
         \/ at' = "ended" /\ global_running_test' = FALSE
<1>1. CASE _will_return
  <2>1. PICK op \in Call("will_return") :
          /\ UNCHANGED heap
          /\ IF op.count # 0
             THEN /\ global_function_result_map' =
                       add_symbol_value(global_function_result_map, op.function, op.value, op.count)
                  /\ UNCHANGED <<global_function_parameter_map, global_call_ordering>>
                  /\ Goes(op)
             ELSE Fails(op)
    BY <1>1 DEF _will_return
  <2>2. WellFormed(op) /\ op.call = "will_return"
    BY <2>1, CallFacts
  <2>3. Clean(op) <=> op.count # 0
    BY <2>2 DEF Clean
  <2>4. CASE op.count # 0
    <3>1. Adds(op)
      BY <2>1, <2>2, <2>3, <2>4 DEF Goes, runner, heap, Adds
    <3> QED BY <3>1
  <2>5. CASE op.count = 0
    <3>1. Breaks(op)
      BY <2>1, <2>2, <2>3, <2>5 DEF Fails, exit_test, Breaks
    <3> QED BY <3>1
  <2> QED BY <2>4, <2>5
<1>2. CASE _mock
  <2>1. PICK op \in Call("mock") :
          /\ UNCHANGED heap
          /\ IF GetsValue(op)
             THEN /\ global_function_result_map' =
                       get_symbol_value(global_function_result_map, op.function).map
                  /\ UNCHANGED <<global_function_parameter_map, global_call_ordering>>
                  /\ Goes(op)
             ELSE Fails(op)
    BY <1>2 DEF _mock, GetsValue
  <2>2. WellFormed(op) /\ op.call = "mock"
    BY <2>1, CallFacts
  <2>3. Clean(op)
    BY <2>2 DEF Clean
  <2>4. CASE GetsValue(op)
    <3>1. Adds(op)
      BY <2>1, <2>2, <2>3, <2>4 DEF Goes, runner, heap, Adds
    <3> QED BY <3>1
  <2>5. CASE ~GetsValue(op)
    <3>1. Breaks(op)
      BY <2>1, <2>2, <2>5 DEF Fails, exit_test, Breaks
    <3> QED BY <3>1
  <2> QED BY <2>4, <2>5
<1>3. CASE _expect_check
  <2>1. PICK op \in Call("expect_check") :
          /\ global_function_parameter_map' =
               add_symbol_value(global_function_parameter_map, op.parameter, op.check, op.count)
          /\ Goes(op)
          /\ UNCHANGED <<global_function_result_map, global_call_ordering, heap, lost>>
    BY <1>3 DEF _expect_check
  <2>2. WellFormed(op) /\ op.call = "expect_check"
    BY <2>1, CallFacts
  <2>3. Adds(op)
    BY <2>1, <2>2 DEF Goes, runner, heap, Adds
  <2> QED BY <2>3
<1>4. CASE _check_expected
  <2>1. PICK op \in Call("check_expected") :
          /\ UNCHANGED heap
          /\ IF MeetsCheck(op)
             THEN /\ global_function_parameter_map' =
                       get_symbol_value(global_function_parameter_map, op.parameter).map
                  /\ UNCHANGED <<global_function_result_map, global_call_ordering>>
                  /\ Goes(op)
             ELSE Fails(op)
    BY <1>4 DEF _check_expected, MeetsCheck
  <2>2. WellFormed(op) /\ op.call = "check_expected"
    BY <2>1, CallFacts
  <2>3. Clean(op)
    BY <2>2 DEF Clean
  <2>4. CASE MeetsCheck(op)
    <3>1. Adds(op)
      BY <2>1, <2>2, <2>3, <2>4 DEF Goes, runner, heap, Adds
    <3> QED BY <3>1
  <2>5. CASE ~MeetsCheck(op)
    <3>1. Breaks(op)
      BY <2>1, <2>2, <2>5 DEF Fails, exit_test, Breaks
    <3> QED BY <3>1
  <2> QED BY <2>4, <2>5
<1>5. CASE _expect_function_call
  <2>1. PICK op \in Call("expect_function_call") :
          /\ UNCHANGED heap
          /\ IF op.count # 0
             THEN /\ global_call_ordering' = list_add_value(global_call_ordering, op.function, op.count)
                  /\ UNCHANGED <<global_function_result_map, global_function_parameter_map>>
                  /\ Goes(op)
             ELSE Fails(op)
    BY <1>5 DEF _expect_function_call
  <2>2. WellFormed(op) /\ op.call = "expect_function_call"
    BY <2>1, CallFacts
  <2>3. Clean(op) <=> op.count # 0
    BY <2>2 DEF Clean
  <2>4. CASE op.count # 0
    <3>1. Adds(op)
      BY <2>1, <2>2, <2>3, <2>4 DEF Goes, runner, heap, Adds
    <3> QED BY <3>1
  <2>5. CASE op.count = 0
    <3>1. Breaks(op)
      BY <2>1, <2>2, <2>3, <2>5 DEF Fails, exit_test, Breaks
    <3> QED BY <3>1
  <2> QED BY <2>4, <2>5
<1>6. CASE _function_called
  <2>1. PICK op \in Call("function_called") :
          /\ UNCHANGED heap
          /\ \/ \E i \in Expected(global_call_ordering, op.function) :
                  /\ global_call_ordering' = Used(global_call_ordering, i)
                  /\ UNCHANGED <<global_function_result_map, global_function_parameter_map>>
                  /\ Goes(op)
             \/ Expected(global_call_ordering, op.function) = {} /\ Fails(op)
    BY <1>6 DEF _function_called
  <2>2. WellFormed(op) /\ op.call = "function_called"
    BY <2>1, CallFacts
  <2>3. Clean(op)
    BY <2>2 DEF Clean
  <2>4. CASE \E i \in Expected(global_call_ordering, op.function) :
               /\ global_call_ordering' = Used(global_call_ordering, i)
               /\ UNCHANGED <<global_function_result_map, global_function_parameter_map>>
               /\ Goes(op)
    <3>1. Adds(op)
      BY <2>1, <2>2, <2>3, <2>4 DEF Goes, runner, heap, Adds
    <3> QED BY <3>1
  <2>5. CASE Expected(global_call_ordering, op.function) = {} /\ Fails(op)
    <3>1. Breaks(op)
      BY <2>2, <2>5 DEF Fails, exit_test, Breaks
    <3> QED BY <3>1
  <2> QED BY <2>1, <2>4, <2>5
<1>7. CASE _assert
  <2>1. PICK op \in Call("assert") :
          UNCHANGED heap /\ IF Holds(op.check, op.value) THEN Goes(op) /\ UNCHANGED maps ELSE Fails(op)
    BY <1>7 DEF _assert
  <2>2. WellFormed(op) /\ op.call = "assert"
    BY <2>1, CallFacts
  <2>3. Clean(op) <=> Holds(op.check, op.value)
    BY <2>2 DEF Clean
  <2>4. CASE Holds(op.check, op.value)
    BY <2>1, <2>2, <2>3, <2>4, PlainAdds
  <2>5. CASE ~Holds(op.check, op.value)
    <3>1. Breaks(op)
      BY <2>1, <2>2, <2>3, <2>5 DEF Fails, exit_test, Breaks
    <3> QED BY <3>1
  <2> QED BY <2>4, <2>5
<1>8. CASE _fail \/ exception_handler
  <2>1. PICK op \in Call("fail") \union Call("exception") : Fails(op)
    BY <1>8 DEF _fail, exception_handler
  <2>2. WellFormed(op) /\ op.call \in {"fail", "exception"}
    BY <2>1, CallFacts
  <2>3. ~Clean(op)
    BY <2>2 DEF Clean
  <2>4. Breaks(op)
    BY <2>1, <2>2, <2>3 DEF Fails, exit_test, Breaks
  <2> QED BY <2>4
<1>9. CASE _skip
  <2>1. PICK op \in Call("skip") : done' = Append(done, op) /\ exit_test(TRUE)
    BY <1>9 DEF _skip
  <2>2. WellFormed(op) /\ op.call = "skip"
    BY <2>1, CallFacts
  <2>3. ~Clean(op)
    BY <2>2 DEF Clean
  <2>4. Breaks(op)
    BY <2>1, <2>2, <2>3 DEF exit_test, Breaks
  <2> QED BY <2>4
<1>10. CASE expect_assert_failure
  <2>1. PICK op \in Call("expect_assert_failure") :
          /\ done' = Append(done, op) /\ UNCHANGED heap
          /\ IF op.outcome = "asserts"
             THEN UNCHANGED <<suite, runner, global_running_test, global_skip_test, maps>>
             ELSE exit_test(global_skip_test)
    BY <1>10 DEF expect_assert_failure
  <2>2. WellFormed(op) /\ op.call = "expect_assert_failure"
    BY <2>1, CallFacts
  <2>3. Clean(op) <=> op.outcome = "asserts"
    BY <2>2 DEF Clean
  <2>4. CASE op.outcome = "asserts"
    <3>1. Adds(op)
      BY <2>1, <2>2, <2>3, <2>4 DEF runner, heap, maps, Adds
    <3> QED BY <3>1
  <2>5. CASE op.outcome # "asserts"
    <3>1. Breaks(op)
      BY <2>1, <2>2, <2>3, <2>5 DEF exit_test, Breaks
    <3> QED BY <3>1
  <2> QED BY <2>4, <2>5
<1>11. CASE mock_assert
  <2>1. PICK op \in Call("mock_assert") :
          \/ op.result /\ Goes(op) /\ UNCHANGED <<heap, maps>>
          \/ ~op.result /\ Fails(op)
          \/ at' = "ended" /\ global_running_test' = FALSE
    BY <1>11 DEF mock_assert
  <2>2. WellFormed(op) /\ op.call = "mock_assert"
    BY <2>1, CallFacts
  <2>3. Clean(op) = op.result
    BY <2>2 DEF Clean
  <2>4. CASE op.result /\ Goes(op) /\ UNCHANGED <<heap, maps>>
    BY <2>2, <2>3, <2>4, PlainAdds
  <2>5. CASE ~op.result /\ Fails(op)
    <3>1. Breaks(op)
      BY <2>2, <2>3, <2>5 DEF Fails, exit_test, Breaks
    <3> QED BY <3>1
  <2> QED BY <2>1, <2>4, <2>5
<1>12. CASE _test_malloc \/ _test_free \/ _test_realloc_set0 \/ _test_realloc \/ Overrun
  <2>1. PICK op \in Call("malloc") \union Call("free") \union Call("realloc") \union Call("overrun") :
          (Goes(op) /\ UNCHANGED maps) \/ Fails(op)
    <3>1. CASE _test_malloc
      BY <3>1, Zenon DEF _test_malloc
    <3>2. CASE _test_free
      BY <3>2, Zenon DEF _test_free, Frees
    <3>3. CASE _test_realloc_set0
      BY <3>3, Zenon DEF _test_realloc_set0, Frees
    <3>4. CASE _test_realloc
      BY <3>4, Zenon DEF _test_realloc
    <3>5. CASE Overrun
      BY <3>5, Zenon DEF Overrun
    <3> QED BY <1>12, <3>1, <3>2, <3>3, <3>4, <3>5
  <2>2. WellFormed(op) /\ op.call \in {"malloc", "free", "realloc", "overrun"}
    BY <2>1, CallFacts
  <2>3. Clean(op)
    BY <2>2 DEF Clean
  <2>4. CASE Goes(op) /\ UNCHANGED maps
    BY <2>2, <2>3, <2>4, PlainAdds DEF HeapCalls
  <2>5. CASE Fails(op)
    <3>1. Breaks(op)
      BY <2>2, <2>5 DEF Fails, exit_test, Breaks, HeapCalls
    <3> QED BY <3>1
  <2> QED BY <2>1, <2>4, <2>5
<1> QED BY <1>1, <1>2, <1>3, <1>4, <1>5, <1>6, <1>7, <1>8, <1>9, <1>10, <1>11, <1>12 DEF Calling

\* No call is expected that was declared for no use.
LEMMA OpenExpected ==
  ASSUME ValuesInv, global_running_test, NEW i \in DOMAIN global_call_ordering
  PROVE  global_call_ordering[i].refcount # 0
<1> DEFINE list == global_call_ordering
           expect == Of(done, "expect_function_call")
           made == Of(done, "function_called")
<1>1. PICK node, charge : Accounting(done, expect, made, list, node, charge)
  BY OrderListedFacts DEF ValuesInv, CallsListed
<1>2. i \in 1 .. Len(list)
  BY <1>1, SequenceFacts DEF Accounting, IsList
<1>3. node[i] \in expect
  BY <1>1, <1>2 DEF Accounting
<1>4. Left(done[node[i]].count, list[i].refcount, UsesOf(made, charge, node[i]))
  BY <1>1, <1>2 DEF Accounting, Accounts
<1>5. done[node[i]].count # 0
  <2>1. node[i] \in DOMAIN done /\ done[node[i]].call = "expect_function_call"
    BY <1>3 DEF Of
  <2>2. Clean(done[node[i]])
    BY <2>1 DEF ValuesInv
  <2> QED BY <2>1, <2>2 DEF Clean
<1> QED BY <1>4, <1>5 DEF Left, WILL_RETURN_ALWAYS, WILL_RETURN_ONCE

\* Nothing is declared or used when a function starts.
LEMMA NothingListed ==
  ValuesListed(<<>>, {}, {}, <<>>) /\ OrderListed(<<>>, {}, {}, <<>>)
<1> DEFINE none == [x \in {} |-> x]
<1>1. IsSequence(<<>>) /\ IsList(<<>>) /\ 1 .. Len(<<>>) = {}
  BY NoValues DEF IsList
<1>2. none \in [1 .. Len(<<>>) -> {}] /\ none \in [{} -> {}]
  BY <1>1
<1>3. Accounts(<<>>, {}, {}, <<>>, none, none)
  BY <1>1 DEF Accounts
<1>4. Accounting(<<>>, {}, {}, <<>>, none, none)
  BY <1>1, <1>2, <1>3 DEF Accounting
<1>5. InTurn({}, {}, <<>>, none, none)
  <2>1. \A k \in 2 .. Len(<<>>) : FALSE
    OBVIOUS
  <2> QED BY <2>1 DEF InTurn
<1>6. PassedOver(<<>>, {}, {}, none, none)
  BY DEF PassedOver
<1> QED BY <1>4, <1>5, <1>6, ValuesListedFacts, OrderListedFacts

LEMMA BeginListed ==
  ASSUME TypeInv, cmocka_run_one_test_or_fixture
  PROVE  ValuesInv'
<1>1. /\ done' = <<>> /\ UNCHANGED maps /\ ~global_running_test
  BY DEF cmocka_run_one_test_or_fixture
<1>2. /\ \A f \in Symbols : global_function_result_map'[f] = <<>>
      /\ \A p \in Parameters : global_function_parameter_map'[p] = <<>>
      /\ global_call_ordering' = <<>>
  BY <1>1 DEF TypeInv, ListsOK, maps
<1>3. DOMAIN <<>> = {}
  OBVIOUS
<1>4. /\ \A s : Given(<<>>, s) = {} /\ Taken(<<>>, s) = {} /\ Awaited(<<>>, s) = {} /\ Checks(<<>>, s) = {}
      /\ \A name : Of(<<>>, name) = {}
  BY <1>3 DEF Given, Taken, Awaited, Checks, Of
<1>5. /\ ResultsListed(done', global_function_result_map')
      /\ ChecksListed(done', global_function_parameter_map')
      /\ CallsListed(done', global_call_ordering')
  BY <1>1, <1>2, <1>4, NothingListed DEF ResultsListed, ChecksListed, CallsListed
<1> QED BY <1>1, <1>3, <1>5 DEF ValuesInv

LEMMA AddsListed ==
  ASSUME TypeInv, ValuesInv, global_running_test, NEW op, Adds(op)
  PROVE  ValuesInv'
<1>1. /\ IsSequence(done) /\ done' = Append(done, op) /\ WellFormed(op)
      /\ Clean(op) \/ op.call = "expect_check"
  BY DEF TypeInv, FlagsOK, Adds
<1>2. /\ DOMAIN global_function_result_map = Symbols
      /\ DOMAIN global_function_parameter_map = Parameters
  BY DEF TypeInv, ListsOK
<1>3. /\ ResultsListed(done, global_function_result_map)
      /\ ChecksListed(done, global_function_parameter_map)
      /\ CallsListed(done, global_call_ordering)
  BY DEF ValuesInv
<1>4. ResultsListed(Append(done, op), global_function_result_map')
  <2>1. \/ op.call \notin {"will_return", "mock"} /\ global_function_result_map' = global_function_result_map
        \/ /\ op.call = "will_return"
           /\ global_function_result_map' =
                add_symbol_value(global_function_result_map, op.function, op.value, op.count)
        \/ /\ op.call = "mock"
           /\ LET next == get_symbol_value(global_function_result_map, op.function)
              IN  next.found /\ Holds(op.check, next.value) /\ global_function_result_map' = next.map
    BY DEF Adds, GetsValue
  <2> QED BY <1>1, <1>2, <1>3, <2>1, ResultsKept
<1>5. ChecksListed(Append(done, op), global_function_parameter_map')
  <2>1. \/ /\ op.call \notin {"expect_check", "check_expected"}
           /\ global_function_parameter_map' = global_function_parameter_map
        \/ /\ op.call = "expect_check"
           /\ global_function_parameter_map' =
                add_symbol_value(global_function_parameter_map, op.parameter, op.check, op.count)
        \/ /\ op.call = "check_expected"
           /\ LET next == get_symbol_value(global_function_parameter_map, op.parameter)
              IN  next.found /\ Holds(next.value, op.value) /\ global_function_parameter_map' = next.map
    BY DEF Adds, MeetsCheck
  <2> QED BY <1>1, <1>2, <1>3, <2>1, ChecksKept
<1>6. CallsListed(Append(done, op), global_call_ordering')
  <2>1. \A i \in Expected(global_call_ordering, op.function) : global_call_ordering[i].refcount # 0
    BY OpenExpected DEF Expected
  <2>2. \/ /\ op.call \notin {"expect_function_call", "function_called"}
           /\ global_call_ordering' = global_call_ordering
        \/ /\ op.call = "expect_function_call"
           /\ global_call_ordering' = list_add_value(global_call_ordering, op.function, op.count)
        \/ /\ op.call = "function_called"
           /\ \E i \in Expected(global_call_ordering, op.function) :
                /\ global_call_ordering[i].refcount # 0
                /\ global_call_ordering' = Used(global_call_ordering, i)
    BY <2>1 DEF Adds
  <2> QED BY <1>1, <1>3, <2>2, CallsKept
<1>7. \A i \in DOMAIN done' : WellFormed(done'[i]) /\ (Clean(done'[i]) \/ done'[i].call = "expect_check")
  <2>1. ASSUME NEW i \in DOMAIN done'
        PROVE  done'[i] = op \/ (i \in DOMAIN done /\ done'[i] = done[i])
    BY <1>1, CallAdded
  <2> QED BY <1>1, <2>1 DEF ValuesInv
<1>8. global_running_test =>
        /\ \A i \in DOMAIN done' :
             WellFormed(done'[i]) /\ (Clean(done'[i]) \/ done'[i].call = "expect_check")
        /\ ResultsListed(done', global_function_result_map')
        /\ ChecksListed(done', global_function_parameter_map')
        /\ CallsListed(done', global_call_ordering')
  BY <1>1, <1>4, <1>5, <1>6, <1>7
<1> QED BY <1>8 DEF ValuesInv

LEMMA StepListed ==
  ASSUME CallsWellFormed, TypeInv, ValuesInv, [Next]_vars
  PROVE  ValuesInv'
<1>1. CASE Calling
  <2>1. global_running_test
    BY <1>1, CallingStep DEF CallStep
  <2>2. CASE \E op : Adds(op)
    BY <2>1, <2>2, AddsListed
  <2>3. CASE \E op : Breaks(op)
    BY <2>3 DEF Breaks, Leave, ValuesInv
  <2>4. CASE global_running_test' = FALSE
    BY <2>4 DEF ValuesInv
  <2> QED BY <1>1, <2>2, <2>3, <2>4, CallingCases
<1>2. CASE Return
  <2>1. PICK rc : ReturnsWith(rc)
    BY <1>2, ReturnStep
  <2> QED BY <2>1 DEF ReturnsWith, Leave, ValuesInv
<1>3. CASE NoFunction \/ Finish
  <2>1. ~global_running_test /\ global_running_test' = global_running_test
    BY <1>3, NoFunctionTyped DEF NoFunction, Finish, TypeInv, FlagsOK, Functions
  <2> QED BY <2>1 DEF ValuesInv
<1>4. CASE UNCHANGED vars
  BY <1>4 DEF vars, maps, ValuesInv
<1> QED BY <1>1, <1>2, <1>3, <1>4, BeginListed, NextCases

(***************************************************************************)
(* What it means that nothing is left over.                                *)
(***************************************************************************)
\* Of the values of a symbol,
LEMMA ValuesDone ==
  ASSUME NEW calls, NEW declared, NEW used, NEW list,
         ValuesListed(calls, declared, used, list), remove_always_return_values(list) = <<>>
  PROVE  Fits(calls, declared, used) /\ \A j \in declared : calls[j].count # 0
<1>1. PICK node, charge : /\ Accounting(calls, declared, used, list, node, charge)
                          /\ InTurn(declared, used, list, node, charge)
  BY ValuesListedFacts
<1>2. Len(list) \in Nat /\ IsSequence(list)
  BY <1>1, SequenceFacts DEF Accounting, IsList
<1>3. Len(list) \in {0, 1} /\ \A k \in 1 .. Len(list) : list[k].refcount < -1
  <2>1. CASE list = <<>>
    BY <2>1, EmptySeq
  <2>2. CASE list # <<>>
    <3>1. PICK S : list \in Seq(S)
      BY <1>2 DEF IsSequence
    <3>2. Head(list) = list[1] /\ Len(list) # 0 /\ Len(Tail(list)) = Len(list) - 1
      BY <2>2, <3>1, EmptySeq, HeadTailProperties
    <3>3. Head(list).refcount < -1 /\ Tail(list) = <<>>
      BY <2>2 DEF remove_always_return_values
    <3>4. Len(list) - 1 = 0
      BY <3>2, <3>3, EmptySeq
    <3>5. Len(list) = 1
      BY <1>2, <3>4
    <3> QED BY <3>2, <3>3, <3>5
  <2> QED BY <2>1, <2>2
<1>4. /\ node \in [1 .. Len(list) -> declared] /\ charge \in [used -> declared]
      /\ \A k \in used : charge[k] < k /\ Meets(calls[charge[k]], calls[k])
      /\ \A k \in 1 .. Len(list) :
           Left(calls[node[k]].count, list[k].refcount, UsesOf(used, charge, node[k]))
      /\ \A j \in declared \ Range(node) :
           calls[j].count > 0 /\ Cardinality(UsesOf(used, charge, j)) = calls[j].count
      /\ \A k, l \in used : k < l => charge[k] <= charge[l]
      /\ \A j \in declared \ Range(node) : \A k \in 1 .. Len(list) : j < node[k]
  BY <1>1 DEF Accounting, Accounts, InTurn
<1>5. ASSUME NEW j \in declared \intersect Range(node)
      PROVE  /\ ~(calls[j].count > 0) /\ calls[j].count # 0
             /\ calls[j].count = WILL_RETURN_ALWAYS => UsesOf(used, charge, j) # {}
             /\ Len(list) = 1 /\ j = node[1]
  <2>1. PICK k \in 1 .. Len(list) : j = node[k]
    BY <1>4 DEF Range
  <2>2. Len(list) = 1 /\ k = 1
    <3>1. CASE Len(list) = 0
      BY <2>1, <3>1
    <3>2. CASE Len(list) = 1
      BY <2>1, <3>2
    <3> QED BY <1>3, <3>1, <3>2
  <2>3. Left(calls[j].count, list[k].refcount, UsesOf(used, charge, j)) /\ list[k].refcount < -1
    BY <1>3, <1>4, <2>1
  <2>4. list[k].refcount \in Counts
    BY <1>1, <1>2, SequenceFacts DEF Accounting, IsList
  <2> QED BY <2>1, <2>2, <2>3, <2>4 DEF Left, Counts, WILL_RETURN_ALWAYS, WILL_RETURN_ONCE
<1>6. Charges(calls, declared, used, charge)
  <2>1. ASSUME NEW j \in declared
        PROVE  /\ calls[j].count > 0 => Cardinality(UsesOf(used, charge, j)) = calls[j].count
               /\ calls[j].count = WILL_RETURN_ALWAYS => UsesOf(used, charge, j) # {}
    BY <1>4, <1>5 DEF WILL_RETURN_ALWAYS
  <2> QED BY <1>4, <2>1 DEF Charges, UsesOf
<1>7. ASSUME NEW j \in declared, calls[j].count < 0, NEW i \in declared
      PROVE  i <= j
  <2>1. j \in Range(node)
    BY <1>1, <1>4, <1>7 DEF Accounting, Counts, WILL_RETURN_ALWAYS, WILL_RETURN_ONCE
  <2>2. Len(list) = 1 /\ j = node[1] /\ 1 \in 1 .. Len(list)
    BY <1>5, <2>1
  <2>3. i \in Nat /\ j \in Nat
    BY <1>1, CallAdded DEF Accounting
  <2>4. CASE i \in Range(node)
    BY <1>5, <2>2, <2>3, <2>4
  <2>5. CASE i \notin Range(node)
    BY <1>4, <2>2, <2>3, <2>5
  <2> QED BY <2>4, <2>5
<1>8. \A j \in declared : calls[j].count # 0
  BY <1>4, <1>5
<1> QED BY <1>4, <1>6, <1>7, <1>8 DEF Fits

\* and of the expected calls.
LEMMA OrderDone ==
  ASSUME NEW calls, NEW list, CallsListed(calls, list),
         remove_always_return_values_from_list(list) = {}
  PROVE  OrderKept(calls)
<1> DEFINE declared == Of(calls, "expect_function_call")
           used == Of(calls, "function_called")
<1>1. PICK node, charge : /\ Accounting(calls, declared, used, list, node, charge)
                          /\ PassedOver(calls, declared, used, node, charge)
  BY OrderListedFacts DEF CallsListed
<1>2. Len(list) \in Nat /\ DOMAIN list = 1 .. Len(list)
  BY <1>1, SequenceFacts DEF Accounting, IsList
<1>3. \A k \in 1 .. Len(list) : list[k].refcount < -1 /\ list[k].refcount \in Counts
  <2>1. \A k \in 1 .. Len(list) : list[k].refcount \in Counts
    BY <1>1, <1>2 DEF Accounting, IsList
  <2>2. \A k \in 1 .. Len(list) : ~(list[k].refcount >= -1)
    BY <1>2 DEF remove_always_return_values_from_list
  <2> QED BY <2>1, <2>2 DEF Counts, WILL_RETURN_ALWAYS, WILL_RETURN_ONCE
<1>4. /\ node \in [1 .. Len(list) -> declared] /\ charge \in [used -> declared]
      /\ \A k \in used : charge[k] < k /\ Meets(calls[charge[k]], calls[k])
      /\ \A k \in 1 .. Len(list) :
           Left(calls[node[k]].count, list[k].refcount, UsesOf(used, charge, node[k]))
      /\ \A j \in declared \ Range(node) :
           calls[j].count > 0 /\ Cardinality(UsesOf(used, charge, j)) = calls[j].count
  BY <1>1 DEF Accounting, Accounts
<1>5. ASSUME NEW j \in declared
      PROVE  /\ calls[j].count > 0 => Cardinality(UsesOf(used, charge, j)) = calls[j].count
             /\ calls[j].count = WILL_RETURN_ALWAYS => UsesOf(used, charge, j) # {}
  <2>1. CASE j \in Range(node)
    <3>1. PICK k \in 1 .. Len(list) : j = node[k]
      BY <1>4, <2>1 DEF Range
    <3>2. Left(calls[j].count, list[k].refcount, UsesOf(used, charge, j)) /\ list[k].refcount < -1
      BY <1>3, <1>4, <3>1
    <3> QED BY <1>3, <3>1, <3>2 DEF Left, Counts, WILL_RETURN_ALWAYS, WILL_RETURN_ONCE
  <2>2. CASE j \notin Range(node)
    BY <1>4, <2>2 DEF WILL_RETURN_ALWAYS
  <2> QED BY <2>1, <2>2
<1>6. Charges(calls, declared, used, charge)
  BY <1>4, <1>5 DEF Charges, UsesOf
<1>7. \A k \in used : \A j \in {i \in declared : i < charge[k]} :
        IF calls[j].count > 0 THEN \A l \in used : charge[l] = j => l < k
        ELSE /\ calls[j].function # calls[k].function
             /\ calls[j].count = WILL_RETURN_ALWAYS => \E l \in used : charge[l] = j /\ l < k
  BY <1>1 DEF PassedOver
<1> QED BY <1>4, <1>6, <1>7 DEF OrderKept

LEMMA NothingLeft ==
  ASSUME TypeInv, ValuesInv, global_running_test, ~LeftoverValues
  PROVE  Kept(done)
<1>1. /\ \A f \in Symbols : remove_always_return_values(global_function_result_map[f]) = <<>>
      /\ \A p \in Parameters : remove_always_return_values(global_function_parameter_map[p]) = <<>>
      /\ remove_always_return_values_from_list(global_call_ordering) = {}
  BY DEF LeftoverValues, check_for_leftover_values, check_for_leftover_values_list, TypeInv, ListsOK
<1>2. \A f \in Symbols : Fits(done, Given(done, f), Taken(done, f))
  BY <1>1, ValuesDone DEF ValuesInv, ResultsListed
<1>3. ReturnsKept(done)
  BY <1>2 DEF ReturnsKept, Given, Taken
<1>4. \A p \in Parameters : /\ Fits(done, Awaited(done, p), Checks(done, p))
                            /\ \A j \in Awaited(done, p) : done[j].count # 0
  BY <1>1, ValuesDone DEF ValuesInv, ChecksListed
<1>5. ParametersKept(done)
  BY <1>4 DEF ParametersKept, Awaited, Checks
<1>6. OrderKept(done)
  BY <1>1, OrderDone DEF ValuesInv
<1>7. ASSUME NEW i \in DOMAIN done PROVE Clean(done[i])
  <2>1. CASE done[i].call = "expect_check"
    <3>1. done[i].parameter \in Parameters
      BY <2>1 DEF ValuesInv, WellFormed
    <3>2. i \in Awaited(done, done[i].parameter)
      BY <2>1 DEF Awaited, Of
    <3>3. done[i].count # 0
      BY <1>4, <3>1, <3>2
    <3> QED BY <2>1, <3>3 DEF Clean
  <2>2. CASE done[i].call # "expect_check"
    BY <2>2 DEF ValuesInv
  <2> QED BY <2>1, <2>2
<1> QED BY <1>3, <1>5, <1>6, <1>7 DEF Kept

\* A function that returns: what its result is.
LEMMA ReturnResult ==
  ASSUME Return
  PROVE  done' = done /\ \E rc : Leave(rc, global_skip_test) /\ (rc = 0 => ~LeftoverValues)
<1>1. CASE \E op : fail_if_leftover_values(Result(op))
  <2>1. PICK op : fail_if_leftover_values(Result(op))
    BY <1>1
  <2>2. CASE LeftoverValues
    <3>1. Leave(-1, global_skip_test)
      BY <2>1, <2>2 DEF fail_if_leftover_values
    <3> QED BY <3>1 DEF Return
  <2>3. CASE ~LeftoverValues
    <3>1. Leave(Result(op), global_skip_test)
      BY <2>1, <2>3 DEF fail_if_leftover_values
    <3> QED BY <2>3, <3>1 DEF Return
  <2> QED BY <2>2, <2>3
<1>2. CASE exit_test(global_skip_test)
  <2>1. Leave(-1, global_skip_test)
    BY <1>2 DEF exit_test
  <2> QED BY <2>1 DEF Return
<1>3. \/ \E op : fail_if_leftover_values(Result(op))
      \/ exit_test(global_skip_test)
  BY DEF Return, fail_if_blocks_allocated, ReadsFreed
<1> QED BY <1>1, <1>2, <1>3

\* The steps that end a test.
LEMMA TestEnding ==
  ASSUME CallsWellFormed, TypeInv, [Next]_vars, TestEnds
  PROVE  Return \/ (Calling /\ \E skip : Leave(-1, skip))
<1>1. at = "test" /\ global_running_test /\ at' = "teardown"
  BY DEF TestEnds
<1>2. CASE Calling
  BY <1>1, <1>2, CallingStep DEF CallStep, Continues, Stops, Skips, Dies, runner
<1>3. ~(NoFunction \/ cmocka_run_one_test_or_fixture \/ Finish \/ UNCHANGED vars)
  BY <1>1, NoFunctionTyped DEF cmocka_run_one_test_or_fixture, Finish, vars
<1> QED BY <1>2, <1>3, NextCases

\* A test passes only if it got from its mocks every value it declared, in the
\* order and as often as declared, its parameters met every check it declared,
\* and the mocks were called in the order it declared.
THEOREM PassedMeansKeptHolds ==
  ASSUME CallsWellFormed
  PROVE  Spec => PassedMeansKept
<1>1. Init => TypeInv /\ ValuesInv
  BY InitTyped DEF Init, ValuesInv
<1>2. TypeInv /\ ValuesInv /\ [Next]_vars => (TypeInv /\ ValuesInv)'
  BY StepTyped, StepListed
<1>3. ASSUME TypeInv, ValuesInv, [Next]_vars, TestEnds, status'[test] = "PASSED"
      PROVE  Kept(done')
  <2>1. at = "test" /\ global_running_test
    BY <1>3 DEF TestEnds
  <2>2. ASSUME NEW rc, NEW skip, Leave(rc, skip) PROVE rc = 0
    BY <1>3, <2>1, <2>2, ProceedsFacts DEF Leave, TypeInv
  <2>3. Return
    BY <1>3, <2>2, TestEnding
  <2>4. done' = done /\ ~LeftoverValues
    BY <2>2, <2>3, ReturnResult
  <2> QED BY <1>3, <2>1, <2>4, NothingLeft
<1>4. TypeInv /\ ValuesInv /\ [Next]_vars
      => [TestEnds /\ status'[test] = "PASSED" => Kept(done')]_vars
  BY <1>3
<1> QED BY <1>1, <1>2, <1>4, PTL DEF Spec, PassedMeansKept

(***************************************************************************)
(* What a test that does not pass has broken.  The charges of ValuesInv    *)
(* are the only ones that a test which keeps its declarations can have.    *)
(***************************************************************************)
\* Charges that keep all declarations, of which none is for no use.
Settles(calls, declared, used, charge) ==
  /\ used \subseteq DOMAIN calls /\ charge \in [used -> declared]
  /\ Charges(calls, declared, used, charge)
  /\ \A j \in declared : calls[j].count # 0

\* They charge the uses so far as ValuesInv does; the other uses come later.
Agrees(used, charge, many, other) ==
  /\ used \subseteq many /\ \A k \in used : other[k] = charge[k]
  /\ \A k \in used, n \in many \ used : k < n

LEMMA SettlesFacts ==
  ASSUME NEW calls, NEW declared, NEW used, NEW charge, Settles(calls, declared, used, charge)
  PROVE  /\ \A k \in used : charge[k] \in declared /\ charge[k] < k /\ Meets(calls[charge[k]], calls[k])
         /\ \A j \in declared :
              /\ calls[j].count > 0 => Cardinality(UsesOf(used, charge, j)) = calls[j].count
              /\ calls[j].count = WILL_RETURN_ALWAYS => UsesOf(used, charge, j) # {}
              /\ calls[j].count # 0
BY DEF Settles, Charges, UsesOf

LEMMA FewerUses ==
  ASSUME NEW calls, IsSequence(calls), NEW A, NEW B, A \subseteq B, B \subseteq DOMAIN calls,
         NEW u \in B, u \notin A
  PROVE  /\ Cardinality(A) \in Nat /\ Cardinality(B) \in Nat
         /\ Cardinality(A) < Cardinality(B)
<1>1. IsFiniteSet(B) /\ A \in SUBSET B
  BY CallAdded, FS_Subset
<1>2. /\ IsFiniteSet(A) /\ Cardinality(A) <= Cardinality(B)
      /\ Cardinality(A) = Cardinality(B) => A = B
  BY <1>1, FS_Subset
<1>3. Cardinality(A) \in Nat /\ Cardinality(B) \in Nat
  BY <1>1, <1>2, FS_CardinalityType
<1> QED BY <1>2, <1>3

\* A declaration was used no more than it says.
LEMMA UsesAllowed ==
  ASSUME NEW calls, NEW declared, NEW used, NEW list, NEW node, NEW charge,
         Accounting(calls, declared, used, list, node, charge), NEW j \in declared, calls[j].count > 0
  PROVE  /\ Cardinality(UsesOf(used, charge, j)) \in Nat /\ calls[j].count \in Nat
         /\ Cardinality(UsesOf(used, charge, j)) <= calls[j].count
         /\ j \notin Range(node) => Cardinality(UsesOf(used, charge, j)) = calls[j].count
<1>1. Cardinality(UsesOf(used, charge, j)) \in Nat
  BY UsesFinite DEF Accounting
<1>2. calls[j].count \in Nat
  BY DEF Accounting, Counts, WILL_RETURN_ALWAYS, WILL_RETURN_ONCE
<1>3. CASE j \in Range(node)
  <2>1. PICK k \in 1 .. Len(list) : j = node[k]
    BY <1>3 DEF Range, Accounting
  <2>2. Left(calls[j].count, list[k].refcount, UsesOf(used, charge, j)) /\ list[k].refcount \in Counts
    BY <2>1, SequenceFacts DEF Accounting, Accounts, IsList
  <2> QED BY <1>1, <1>2, <1>3, <2>2 DEF Left, Counts, WILL_RETURN_ALWAYS, WILL_RETURN_ONCE
<1>4. CASE j \notin Range(node)
  BY <1>1, <1>2, <1>4 DEF Accounting, Accounts
<1> QED BY <1>3, <1>4

\* Fewer uses, or more, than so far.
LEMMA UsesMissing ==
  ASSUME NEW calls, NEW declared, NEW used, NEW list, NEW node, NEW charge,
         Accounting(calls, declared, used, list, node, charge),
         NEW many, NEW other, Settles(calls, declared, many, other), used \subseteq many,
         NEW j \in declared, calls[j].count > 0,
         UsesOf(many, other, j) \subseteq UsesOf(used, charge, j),
         NEW u \in UsesOf(used, charge, j), u \notin UsesOf(many, other, j)
  PROVE  FALSE
<1>1. IsSequence(calls) /\ UsesOf(used, charge, j) \subseteq DOMAIN calls
  BY DEF Accounting, UsesOf
<1>2. /\ Cardinality(UsesOf(many, other, j)) \in Nat /\ Cardinality(UsesOf(used, charge, j)) \in Nat
      /\ Cardinality(UsesOf(many, other, j)) < Cardinality(UsesOf(used, charge, j))
  BY <1>1, FewerUses
<1>3. Cardinality(UsesOf(used, charge, j)) <= calls[j].count /\ calls[j].count \in Nat
  BY UsesAllowed
<1>4. Cardinality(UsesOf(many, other, j)) = calls[j].count
  BY SettlesFacts
<1> QED BY <1>2, <1>3, <1>4

LEMMA UsesInExcess ==
  ASSUME NEW calls, NEW declared, NEW used, NEW list, NEW node, NEW charge,
         Accounting(calls, declared, used, list, node, charge),
         NEW many, NEW other, Settles(calls, declared, many, other),
         NEW j \in declared, j \notin Range(node),
         UsesOf(used, charge, j) \subseteq UsesOf(many, other, j),
         NEW u \in UsesOf(many, other, j), u \notin UsesOf(used, charge, j)
  PROVE  FALSE
<1>1. IsSequence(calls) /\ UsesOf(many, other, j) \subseteq DOMAIN calls
  BY DEF Accounting, Settles, UsesOf
<1>2. /\ Cardinality(UsesOf(many, other, j)) \in Nat /\ Cardinality(UsesOf(used, charge, j)) \in Nat
      /\ Cardinality(UsesOf(used, charge, j)) < Cardinality(UsesOf(many, other, j))
  BY <1>1, FewerUses
<1>3. calls[j].count > 0 /\ Cardinality(UsesOf(used, charge, j)) = calls[j].count
  BY DEF Accounting, Accounts
<1>4. Cardinality(UsesOf(many, other, j)) = calls[j].count
  BY <1>3, SettlesFacts
<1> QED BY <1>2, <1>3, <1>4

\* The first use that is charged to another declaration.
LEMMA FirstOther ==
  ASSUME NEW used \in SUBSET Nat, NEW charge, NEW other, \E k \in used : other[k] # charge[k]
  PROVE  \E u \in used : other[u] # charge[u] /\ \A v \in used : v < u => other[v] = charge[v]
<1> DEFINE T == {k \in used : other[k] # charge[k]}
<1>1. T \in SUBSET Nat /\ T # {}
  OBVIOUS
<1>2. PICK u \in T : \A v \in T : u <= v
  BY <1>1, Smallest
<1>3. u \in Nat /\ \A v \in used : v \in Nat
  BY <1>2
<1>4. ASSUME NEW v \in used, v < u PROVE v \notin T
  <2>1. ~(u <= v)
    BY <1>3, <1>4
  <2> QED BY <1>2, <2>1
<1> QED BY <1>2, <1>4

\* The values of a symbol are used in their order, and one without a number of
\* uses is the last.
AsDeclared(calls, declared, used, charge) ==
  /\ \A k, l \in used : k < l => charge[k] <= charge[l]
  /\ \A j \in declared : calls[j].count < 0 => \A i \in declared : i <= j

LEMMA ValuesAgree ==
  ASSUME NEW calls, NEW declared, NEW used, NEW list, NEW node, NEW charge,
         Accounting(calls, declared, used, list, node, charge),
         InTurn(declared, used, list, node, charge),
         NEW many, NEW other, Settles(calls, declared, many, other),
         AsDeclared(calls, declared, many, other),
         used \subseteq many, \A k \in used, n \in many \ used : k < n
  PROVE  Agrees(used, charge, many, other)
<1>1. SUFFICES ASSUME \E k \in used : other[k] # charge[k] PROVE FALSE
  BY DEF Agrees
<1>2. /\ DOMAIN calls \subseteq Nat /\ used \subseteq Nat /\ many \subseteq Nat /\ declared \subseteq Nat
  BY CallAdded DEF Accounting, Settles
<1>3. PICK u \in used : other[u] # charge[u] /\ \A v \in used : v < u => other[v] = charge[v]
  BY <1>1, <1>2, FirstOther
<1> DEFINE a == charge[u]
           b == other[u]
<1>4. /\ a \in declared /\ b \in declared /\ a # b /\ u \in many
      /\ a \in Nat /\ b \in Nat /\ u \in Nat
  BY <1>2, <1>3 DEF Accounting, Settles
<1>5. \A v \in many : v < u => v \in used /\ other[v] = charge[v]
  BY <1>2, <1>3
<1>6. /\ \A v \in many : other[v] \in Nat
      /\ \A v \in used : charge[v] \in Nat
  BY <1>2 DEF Accounting, Settles
<1>7. CASE a < b
  <2>1. UsesOf(many, other, a) \subseteq UsesOf(used, charge, a)
    <3>1. ASSUME NEW v \in many, other[v] = a PROVE v \in used /\ charge[v] = a
      <4>1. ~(u < v) /\ v # u
        BY <1>4, <1>7, <3>1 DEF AsDeclared
      <4>2. v < u
        BY <1>2, <1>4, <4>1
      <4> QED BY <1>5, <3>1, <4>2
    <3> QED BY <3>1 DEF UsesOf
  <2>2. u \in UsesOf(used, charge, a) /\ u \notin UsesOf(many, other, a)
    BY <1>4 DEF UsesOf
  <2>3. ~(calls[a].count < 0)
    BY <1>4, <1>7 DEF AsDeclared
  <2>4. calls[a].count > 0
    BY <1>4, <2>3, SettlesFacts DEF Accounting, Counts, WILL_RETURN_ALWAYS, WILL_RETURN_ONCE
  <2> QED BY <1>4, <2>1, <2>2, <2>4, UsesMissing
<1>8. CASE b < a
  <2>1. b \notin Range(node)
    <3>1. SUFFICES ASSUME NEW k \in 1 .. Len(list), b = node[k] PROVE FALSE
      BY DEF Range, Accounting
    <3>2. Len(list) \in Nat
      BY SequenceFacts DEF Accounting, IsList
    <3>3. CASE a \in Range(node)
      <4>1. PICK l \in 1 .. Len(list) : a = node[l]
        BY <3>3 DEF Range, Accounting
      <4>2. ~(l < k) /\ l # k
        BY <1>4, <1>8, <3>1, <4>1 DEF Accounting, Accounts
      <4>3. l \in 2 .. Len(list)
        BY <3>2, <4>2
      <4>4. UsesOf(used, charge, a) = {}
        BY <4>1, <4>3 DEF InTurn
      <4> QED BY <4>4 DEF UsesOf
    <3>4. CASE a \notin Range(node)
      <4>1. a < b
        BY <1>4, <3>1, <3>4 DEF InTurn
      <4> QED BY <1>4, <1>8, <4>1
    <3> QED BY <3>3, <3>4
  <2>2. UsesOf(used, charge, b) \subseteq UsesOf(many, other, b)
    <3>1. ASSUME NEW v \in used, charge[v] = b PROVE v \in many /\ other[v] = b
      <4>1. ~(u < v) /\ v # u
        BY <1>4, <1>8, <3>1 DEF InTurn
      <4>2. v < u
        BY <1>2, <1>4, <4>1
      <4> QED BY <1>5, <3>1, <4>2
    <3> QED BY <3>1 DEF UsesOf
  <2>3. u \in UsesOf(many, other, b) /\ u \notin UsesOf(used, charge, b)
    BY <1>4 DEF UsesOf
  <2> QED BY <1>4, <2>1, <2>2, <2>3, UsesInExcess
<1> QED BY <1>4, <1>7, <1>8

\* Calls pass over what is finished or may be left out.
Passes(calls, declared, used, charge) ==
  \A k \in used, j \in declared : j < charge[k] =>
    IF calls[j].count > 0 THEN \A l \in used : charge[l] = j => l < k
    ELSE /\ calls[j].function # calls[k].function
         /\ calls[j].count = WILL_RETURN_ALWAYS => \E l \in used : charge[l] = j /\ l < k

LEMMA OrderAgree ==
  ASSUME NEW calls, NEW declared, NEW used, NEW list, NEW node, NEW charge,
         Accounting(calls, declared, used, list, node, charge),
         PassedOver(calls, declared, used, node, charge),
         \A j \in declared : calls[j].call = "expect_function_call",
         NEW many, NEW other, Settles(calls, declared, many, other),
         Passes(calls, declared, many, other),
         used \subseteq many, \A k \in used, n \in many \ used : k < n
  PROVE  Agrees(used, charge, many, other)
<1>1. SUFFICES ASSUME \E k \in used : other[k] # charge[k] PROVE FALSE
  BY DEF Agrees
<1>2. /\ DOMAIN calls \subseteq Nat /\ used \subseteq Nat /\ many \subseteq Nat /\ declared \subseteq Nat
  BY CallAdded DEF Accounting, Settles
<1>3. PICK u \in used : other[u] # charge[u] /\ \A v \in used : v < u => other[v] = charge[v]
  BY <1>1, <1>2, FirstOther
<1> DEFINE a == charge[u]
           b == other[u]
<1>4. /\ a \in declared /\ b \in declared /\ a # b /\ u \in many
      /\ a \in Nat /\ b \in Nat /\ u \in Nat
  BY <1>2, <1>3 DEF Accounting, Settles
<1>5. \A v \in many : v < u => v \in used /\ other[v] = charge[v]
  BY <1>2, <1>3
<1>6. calls[a].function = calls[u].function /\ calls[b].function = calls[u].function
  <2>1. Meets(calls[a], calls[u])
    BY DEF Accounting, Accounts
  <2>2. Meets(calls[b], calls[u])
    BY <1>4, SettlesFacts
  <2> QED BY <1>4, <2>1, <2>2, ValueFacts
<1>7. CASE a < b
  <2>1. calls[a].count > 0 /\ \A l \in many : other[l] = a => l < u
    BY <1>4, <1>6, <1>7 DEF Passes
  <2>2. UsesOf(many, other, a) \subseteq UsesOf(used, charge, a)
    BY <1>5, <2>1 DEF UsesOf
  <2>3. u \in UsesOf(used, charge, a) /\ u \notin UsesOf(many, other, a)
    BY <1>4 DEF UsesOf
  <2> QED BY <1>4, <2>1, <2>2, <2>3, UsesMissing
<1>8. CASE b < a
  <2>1. PassedBy(calls, used, node, charge, u, b)
    BY <1>4, <1>8, PassedOverFacts
  <2>2. b \notin Range(node) /\ \A l \in used : charge[l] = b => l < u
    BY <1>6, <2>1 DEF PassedBy
  <2>3. UsesOf(used, charge, b) \subseteq UsesOf(many, other, b)
    BY <1>5, <2>2 DEF UsesOf
  <2>4. u \in UsesOf(many, other, b) /\ u \notin UsesOf(used, charge, b)
    BY <1>4 DEF UsesOf
  <2> QED BY <1>4, <2>2, <2>3, <2>4, UsesInExcess
<1> QED BY <1>4, <1>7, <1>8

\* One use more goes to a declaration that has a node,
LEMMA UseNeedsNode ==
  ASSUME NEW calls, NEW declared, NEW used, NEW list, NEW node, NEW charge,
         Accounting(calls, declared, used, list, node, charge),
         NEW many, NEW other, Settles(calls, declared, many, other),
         Agrees(used, charge, many, other), NEW n \in many, n \notin used
  PROVE  \E k \in 1 .. Len(list) : other[n] = node[k]
<1> DEFINE b == other[n]
<1>1. b \in declared
  BY DEF Settles
<1>2. UsesOf(used, charge, b) \subseteq UsesOf(many, other, b)
  BY DEF Agrees, UsesOf
<1>3. n \in UsesOf(many, other, b) /\ n \notin UsesOf(used, charge, b)
  BY DEF UsesOf
<1>4. b \in Range(node)
  BY <1>1, <1>2, <1>3, UsesInExcess
<1> QED BY <1>4 DEF Range, Accounting

\* and a node that gets none is one that may be left out.
LEMMA NodeWithoutUse ==
  ASSUME NEW calls, NEW declared, NEW used, NEW list, NEW node, NEW charge,
         Accounting(calls, declared, used, list, node, charge),
         NEW many, NEW other, Settles(calls, declared, many, other),
         Agrees(used, charge, many, other),
         NEW k \in 1 .. Len(list), \A n \in many \ used : other[n] # node[k]
  PROVE  list[k].refcount = WILL_RETURN_ONCE /\ calls[node[k]].count < 0
<1> DEFINE j == node[k]
           uses == UsesOf(used, charge, j)
<1>1. UsesOf(many, other, j) = uses
  BY DEF Agrees, UsesOf
<1>2. j \in declared /\ Left(calls[j].count, list[k].refcount, uses) /\ Cardinality(uses) \in Nat
  BY UsesFinite DEF Accounting, Accounts
<1>3. list[k].refcount \in Counts
  BY SequenceFacts DEF Accounting, IsList
<1>4. /\ calls[j].count > 0 => Cardinality(uses) = calls[j].count
      /\ calls[j].count = WILL_RETURN_ALWAYS => uses # {}
      /\ calls[j].count # 0
  BY <1>1, <1>2, SettlesFacts
<1> HIDE DEF uses, j
<1>5. list[k].refcount = WILL_RETURN_ONCE /\ calls[j].count < 0
  BY <1>2, <1>3, <1>4 DEF Left, Counts, WILL_RETURN_ALWAYS, WILL_RETURN_ONCE
<1> QED BY <1>5 DEF j

\* Nothing keeps the declarations of a symbol that fails a use
LEMMA UseRefused ==
  ASSUME NEW calls, NEW declared, NEW used, NEW list, NEW node, NEW charge,
         Accounting(calls, declared, used, list, node, charge),
         NEW many, NEW other, Settles(calls, declared, many, other),
         AsDeclared(calls, declared, many, other), Agrees(used, charge, many, other),
         NEW n \in many, n \notin used, \A m \in many \ used : m = n,
         list # <<>> /\ list[1].refcount # 0
           => \A j \in declared : Value(calls[j]) = list[1].value => ~Meets(calls[j], calls[n])
  PROVE  FALSE
<1>1. PICK k \in 1 .. Len(list) : other[n] = node[k]
  BY UseNeedsNode
<1>2. Len(list) \in Nat /\ 1 \in 1 .. Len(list) /\ list # <<>>
  <2>1. Len(list) \in Nat
    BY SequenceFacts DEF Accounting, IsList
  <2>2. Len(<<>>) = 0
    BY EmptySeq
  <2> QED BY <1>1, <2>1, <2>2
<1>3. /\ \A i \in 1 .. Len(list) : node[i] \in declared
      /\ \A i, l \in 1 .. Len(list) : i < l => node[i] < node[l]
      /\ \A i \in 1 .. Len(list) :
           /\ list[i].value = Value(calls[node[i]])
           /\ Left(calls[node[i]].count, list[i].refcount, UsesOf(used, charge, node[i]))
      /\ declared \subseteq Nat
  BY CallAdded DEF Accounting, Accounts
<1>4. CASE k = 1
  <2>1. Meets(calls[node[1]], calls[n])
    BY <1>1, <1>4, SettlesFacts
  <2>2. list[1].refcount # 0
    BY <1>2, <1>3, SettlesFacts DEF Left, WILL_RETURN_ALWAYS, WILL_RETURN_ONCE
  <2> QED BY <1>2, <1>3, <2>1, <2>2
<1>5. CASE k # 1
  <2>1. node[1] < node[k] /\ node[1] \in Nat /\ node[k] \in Nat
    <3>1. 1 < k
      BY <1>2, <1>5
    <3> QED BY <1>2, <1>3, <3>1
  <2>2. \A m \in many \ used : other[m] # node[1]
    BY <1>1, <2>1
  <2>3. calls[node[1]].count < 0
    BY <1>2, <2>2, NodeWithoutUse
  <2>4. node[k] <= node[1]
    BY <1>2, <1>3, <2>3 DEF AsDeclared
  <2> QED BY <2>1, <2>4
<1> QED BY <1>4, <1>5

\* or has values left over,
LEMMA ValueLeftOver ==
  ASSUME NEW calls, NEW declared, NEW used, NEW list, NEW node, NEW charge,
         Accounting(calls, declared, used, list, node, charge),
         NEW other, Settles(calls, declared, used, other),
         AsDeclared(calls, declared, used, other), Agrees(used, charge, used, other)
  PROVE  remove_always_return_values(list) = <<>>
<1>1. PICK S : list \in Seq(S)
  BY DEF Accounting, IsList, IsSequence
<1>2. \A k \in 1 .. Len(list) : list[k].refcount = WILL_RETURN_ONCE /\ calls[node[k]].count < 0
  BY NodeWithoutUse
<1>3. CASE list = <<>>
  BY <1>3 DEF remove_always_return_values
<1>4. CASE list # <<>>
  <2>1. /\ Head(list) = list[1] /\ Len(list) \in Nat /\ Len(list) # 0 /\ Tail(list) \in Seq(S)
        /\ Len(Tail(list)) = Len(list) - 1
    BY <1>1, <1>4, EmptySeq, LenProperties, HeadTailProperties
  <2>2. remove_always_return_values(list) = Tail(list)
    <3>1. Head(list).refcount < -1
      BY <1>2, <2>1 DEF WILL_RETURN_ONCE
    <3> QED BY <1>4, <3>1 DEF remove_always_return_values
  <2>3. Len(list) < 2
    <3>1. SUFFICES ASSUME Len(list) >= 2 PROVE FALSE
      BY <2>1
    <3>2. 1 \in 1 .. Len(list) /\ 2 \in 1 .. Len(list)
      BY <2>1, <3>1
    <3>3. node[1] \in declared /\ node[2] \in declared /\ node[1] < node[2] /\ declared \subseteq Nat
      BY <3>2, CallAdded DEF Accounting, Accounts
    <3>4. node[2] <= node[1]
      BY <1>2, <3>2, <3>3 DEF AsDeclared
    <3>5. node[1] \in Nat /\ node[2] \in Nat
      BY <3>3
    <3> QED BY <3>3, <3>4, <3>5
  <2>4. Len(Tail(list)) = 0
    BY <2>1, <2>3
  <2> QED BY <2>1, <2>2, <2>4, EmptySeq
<1> QED BY <1>3, <1>4

\* and nothing the order of calls, when one is not expected
LEMMA CallRefused ==
  ASSUME NEW calls, NEW declared, NEW used, NEW list, NEW node, NEW charge,
         Accounting(calls, declared, used, list, node, charge),
         \A j \in declared : calls[j].call = "expect_function_call",
         NEW many, NEW other, Settles(calls, declared, many, other),
         Agrees(used, charge, many, other),
         NEW n \in many, n \notin used, \A m \in many \ used : m = n,
         Expected(list, calls[n].function) = {}
  PROVE  FALSE
<1>1. PICK k \in 1 .. Len(list) : other[n] = node[k]
  BY UseNeedsNode
<1>2. Len(list) \in Nat /\ DOMAIN list = 1 .. Len(list)
  BY SequenceFacts DEF Accounting, IsList
<1>3. list[k].value = calls[n].function
  <2>1. node[k] \in declared /\ list[k].value = Value(calls[node[k]])
    BY DEF Accounting, Accounts
  <2>2. Meets(calls[node[k]], calls[n])
    BY <1>1, SettlesFacts
  <2> QED BY <2>1, <2>2, ValueFacts
<1> DEFINE T == {i \in 1 .. Len(list) : list[i].value = calls[n].function}
<1>4. PICK i \in T : \A l \in T : i <= l
  <2>1. T \in SUBSET Nat /\ T # {}
    BY <1>3
  <2> HIDE DEF T
  <2> QED BY <2>1, Smallest
<1>5. i \in 1 .. Len(list) /\ i <= k
  BY <1>3, <1>4
<1>6. PICK j \in 1 .. i - 1 : ~(list[j].value # calls[n].function /\ list[j].refcount < -1)
  <2>1. i \notin Expected(list, calls[n].function)
    OBVIOUS
  <2> QED BY <1>2, <1>4, <2>1 DEF Expected
<1>7. j \in 1 .. Len(list) /\ j < i /\ j < k
  BY <1>2, <1>5, <1>6
<1>8. list[j].value # calls[n].function
  <2>1. ~(i <= j)
    BY <1>5, <1>7
  <2> QED BY <1>4, <1>7, <2>1
<1>9. node[j] # node[k]
  <2>1. node[j] < node[k] /\ node[j] \in Nat /\ node[k] \in Nat
    BY <1>7, CallAdded DEF Accounting, Accounts
  <2> QED BY <2>1
<1>10. list[j].refcount = WILL_RETURN_ONCE
  <2>1. \A m \in many \ used : other[m] # node[j]
    BY <1>1, <1>9
  <2> QED BY <1>7, <2>1, NodeWithoutUse
<1> QED BY <1>6, <1>8, <1>10 DEF WILL_RETURN_ONCE

\* or one is missing.
LEMMA CallLeftOver ==
  ASSUME NEW calls, NEW declared, NEW used, NEW list, NEW node, NEW charge,
         Accounting(calls, declared, used, list, node, charge),
         NEW other, Settles(calls, declared, used, other), Agrees(used, charge, used, other)
  PROVE  remove_always_return_values_from_list(list) = {}
<1>1. \A k \in 1 .. Len(list) : list[k].refcount = WILL_RETURN_ONCE
  BY NodeWithoutUse
<1>2. DOMAIN list = 1 .. Len(list)
  BY SequenceFacts DEF Accounting, IsList
<1> QED BY <1>1, <1>2 DEF remove_always_return_values_from_list, WILL_RETURN_ONCE

\* A use that fails breaks what was declared for its symbol,
LEMMA FailedUseBreaks ==
  ASSUME NEW calls, NEW declared, NEW used, NEW list, ValuesListed(calls, declared, used, list),
         NEW op, \A j \in declared : calls[j].count # 0,
         list # <<>> /\ list[1].refcount # 0
           => \A j \in declared : Value(calls[j]) = list[1].value => ~Meets(calls[j], op)
  PROVE  ~Fits(Append(calls, op), declared, used \union {Len(calls) + 1})
<1> DEFINE more == Append(calls, op)
           n == Len(calls) + 1
           many == used \union {n}
<1>1. SUFFICES ASSUME Fits(more, declared, many) PROVE FALSE
  OBVIOUS
<1>2. PICK node, charge : /\ Accounting(calls, declared, used, list, node, charge)
                          /\ InTurn(declared, used, list, node, charge)
  BY ValuesListedFacts
<1>3. Accounting(more, declared, used, list, node, charge)
  BY <1>2, AccountsSame
<1>4. /\ n \notin used /\ \A k \in used : k < n
      /\ \A j \in declared : more[j] = calls[j]
      /\ more[n] = op /\ many \subseteq DOMAIN more
  BY <1>2, CallAdded DEF Accounting
<1> HIDE DEF more, n
<1>5. PICK other \in [many -> declared] : /\ Charges(more, declared, many, other)
                                          /\ AsDeclared(more, declared, many, other)
  BY <1>1 DEF Fits, AsDeclared
<1>6. Settles(more, declared, many, other)
  BY <1>4, <1>5 DEF Settles
<1>7. used \subseteq many /\ n \in many /\ \A m \in many \ used : m = n
  OBVIOUS
<1> HIDE DEF many
<1>8. \A k \in used, m \in many \ used : k < m
  BY <1>4, <1>7
<1>9. Agrees(used, charge, many, other)
  BY <1>2, <1>3, <1>5, <1>6, <1>7, <1>8, ValuesAgree
<1>10. list # <<>> /\ list[1].refcount # 0
         => \A j \in declared : Value(more[j]) = list[1].value => ~Meets(more[j], more[n])
  BY <1>4
<1> QED BY <1>3, <1>4, <1>5, <1>6, <1>7, <1>9, <1>10, UseRefused

\* and so do values that are left over.
LEMMA LeftOverBreaks ==
  ASSUME NEW calls, NEW declared, NEW used, NEW list, ValuesListed(calls, declared, used, list),
         \A j \in declared : calls[j].count # 0, Fits(calls, declared, used)
  PROVE  remove_always_return_values(list) = <<>>
<1>1. PICK node, charge : /\ Accounting(calls, declared, used, list, node, charge)
                          /\ InTurn(declared, used, list, node, charge)
  BY ValuesListedFacts
<1>2. PICK other \in [used -> declared] : /\ Charges(calls, declared, used, other)
                                          /\ AsDeclared(calls, declared, used, other)
  BY DEF Fits, AsDeclared
<1>3. Settles(calls, declared, used, other)
  BY <1>1, <1>2 DEF Settles, Accounting
<1>4. Agrees(used, charge, used, other)
  BY <1>1, <1>2, <1>3, ValuesAgree
<1> QED BY <1>1, <1>2, <1>3, <1>4, ValueLeftOver

LEMMA OrderKeptFacts ==
  ASSUME NEW calls
  PROVE  LET declared == Of(calls, "expect_function_call")
             used     == Of(calls, "function_called")
         IN  OrderKept(calls) <=> \E charge \in [used -> declared] :
                                    /\ Charges(calls, declared, used, charge)
                                    /\ Passes(calls, declared, used, charge)
BY DEF OrderKept, Passes

\* A call that is not expected breaks the order,
LEMMA FailedCallBreaks ==
  ASSUME NEW calls, NEW list, CallsListed(calls, list), NEW op, op.call = "function_called",
         \A j \in Of(calls, "expect_function_call") : calls[j].count # 0,
         Expected(list, op.function) = {}
  PROVE  ~OrderKept(Append(calls, op))
<1> DEFINE more == Append(calls, op)
           n == Len(calls) + 1
           declared == Of(calls, "expect_function_call")
           used == Of(calls, "function_called")
           many == used \union {n}
<1>1. SUFFICES ASSUME OrderKept(more) PROVE FALSE
  OBVIOUS
<1>2. PICK node, charge : /\ Accounting(calls, declared, used, list, node, charge)
                          /\ PassedOver(calls, declared, used, node, charge)
  BY OrderListedFacts DEF CallsListed
<1>3. IsSequence(calls)
  BY <1>2 DEF Accounting
<1>4. /\ n \notin used /\ \A k \in used : k < n
      /\ \A j \in declared \union used : more[j] = calls[j]
      /\ more[n] = op /\ many \subseteq DOMAIN more
  BY <1>2, <1>3, CallAdded DEF Accounting
<1>5. Of(more, "expect_function_call") = declared /\ Of(more, "function_called") = many
  <2>1. /\ Of(more, "expect_function_call")
             = declared \union {i \in {n} : op.call = "expect_function_call"}
        /\ Of(more, "function_called") = used \union {i \in {n} : op.call = "function_called"}
    BY <1>3, OfAdded
  <2>2. op.call # "expect_function_call"
    OBVIOUS
  <2> HIDE DEF n, more, declared, used
  <2> QED BY <2>1, <2>2
<1>6. \A j \in declared : calls[j].call = "expect_function_call"
  BY DEF Of
<1>a. Accounting(more, declared, used, list, node, charge)
  BY <1>2, AccountsSame
<1>b. more[n].function = op.function
  BY <1>4
<1> HIDE DEF more, n, declared, used
<1>7. PICK other \in [many -> declared] : /\ Charges(more, declared, many, other)
                                          /\ Passes(more, declared, many, other)
  BY <1>1, <1>5, OrderKeptFacts
<1>c. \A j \in declared : more[j].count # 0 /\ more[j].call = "expect_function_call"
  BY <1>4, <1>6 DEF declared
<1>8. Settles(more, declared, many, other)
  BY <1>4, <1>7, <1>c DEF Settles
<1>9. used \subseteq many /\ n \in many /\ \A m \in many \ used : m = n
  OBVIOUS
<1> HIDE DEF many
<1>10. \A k \in used, m \in many \ used : k < m
  BY <1>4, <1>9
<1>11. PassedOver(more, declared, used, node, charge)
  <2>1. ASSUME NEW k \in used, NEW j \in declared, j < charge[k]
        PROVE  PassedBy(more, used, node, charge, k, j)
    <3>1. PassedBy(calls, used, node, charge, k, j)
      BY <1>2, <2>1, PassedOverFacts
    <3>2. more[j] = calls[j] /\ more[k] = calls[k]
      BY <1>4
    <3> QED BY <3>1, <3>2 DEF PassedBy
  <2> QED BY <2>1, PassedOverFacts
<1>12. Agrees(used, charge, many, other)
  BY <1>7, <1>8, <1>9, <1>10, <1>11, <1>a, <1>c, OrderAgree
<1>13. Expected(list, more[n].function) = {}
  BY <1>b
<1> QED BY <1>4, <1>8, <1>9, <1>12, <1>13, <1>a, <1>c, CallRefused

\* and so does one that is missing.
LEMMA MissingCallBreaks ==
  ASSUME NEW calls, NEW list, CallsListed(calls, list), OrderKept(calls),
         \A j \in Of(calls, "expect_function_call") : calls[j].count # 0
  PROVE  remove_always_return_values_from_list(list) = {}
<1> DEFINE declared == Of(calls, "expect_function_call")
           used == Of(calls, "function_called")
<1>1. PICK node, charge : /\ Accounting(calls, declared, used, list, node, charge)
                          /\ PassedOver(calls, declared, used, node, charge)
  BY OrderListedFacts DEF CallsListed
<1>2. \A j \in declared : calls[j].call = "expect_function_call"
  BY DEF Of
<1>3. PICK other \in [used -> declared] : /\ Charges(calls, declared, used, other)
                                          /\ Passes(calls, declared, used, other)
  BY OrderKeptFacts
<1>a. \A j \in declared : calls[j].count # 0
  OBVIOUS
<1> HIDE DEF declared, used
<1>4. Settles(calls, declared, used, other)
  BY <1>1, <1>3, <1>a DEF Settles, Accounting
<1>5. Agrees(used, charge, used, other)
  BY <1>1, <1>2, <1>3, <1>4, OrderAgree
<1> QED BY <1>1, <1>4, <1>5, CallLeftOver

(***************************************************************************)
(* A test that leaves the heap alone finds no block after its checkpoint.  *)
(***************************************************************************)
Untouched(calls) == \A i \in DOMAIN calls : calls[i].call \notin HeapCalls

UntouchedInv ==
  at = "test" /\ global_running_test /\ Untouched(done) =>
    ~Dangling(heap_check_point) /\ After(heap_check_point) = <<>>

LEMMA NothingAfterLast ==
  ASSUME HeapOK
  PROVE  /\ ~Dangling(check_point_allocated_blocks)
         /\ After(check_point_allocated_blocks) = <<>>
<1> DEFINE B == global_allocated_blocks
           point == check_point_allocated_blocks
<1>1. /\ point \in AddressesOf(B) \union {head} /\ AddressesOf(B) \subseteq Addresses
      /\ B = <<>> => point = head
      /\ B # <<>> => Len(B) \in DOMAIN B /\ point = B[Len(B)].address
  BY CheckPointTyped
<1>2. Distinct(B) /\ B \in Seq(Block) /\ Len(B) \in Nat /\ DOMAIN B = 1 .. Len(B)
  BY LenProperties DEF HeapOK
<1> HIDE DEF point
<1>3. ~Dangling(point) /\ point \in Points /\ point # NULL
  BY <1>1 DEF Dangling, Allocated, AddressesOf, Points, Addresses, NULL, head
<1>4. PICK n \in 0 .. Len(B) :
        /\ After(point) = SubSeq(B, n + 1, Len(B))
        /\ point = head => n = 0
        /\ point # head => n > 0 /\ B[n].address = point
  BY <1>3, PointFacts
<1>5. n = Len(B)
  <2>1. CASE B = <<>>
    BY <1>2, <1>4, <2>1, EmptySeq
  <2>2. CASE B # <<>>
    <3>1. Len(B) \in DOMAIN B /\ point = B[Len(B)].address
      BY <1>1, <2>2
    <3>2. point # head
      <4>1. B[Len(B)].address \in AddressesOf(B)
        BY <3>1 DEF AddressesOf
      <4> QED BY <1>1, <3>1, <4>1 DEF Addresses, head
    <3>3. n \in DOMAIN B /\ B[n].address = B[Len(B)].address
      BY <1>2, <1>4, <3>1, <3>2
    <3> QED BY <1>2, <3>1, <3>3 DEF Distinct
  <2> QED BY <2>1, <2>2
<1>6. SubSeq(B, Len(B) + 1, Len(B)) = <<>>
  <2> DEFINE L == Len(B)
             after == SubSeq(B, L + 1, L)
  <2>1. L \in Nat
    BY <1>2
  <2> HIDE DEF L
  <2>2. \A i \in L + 1 .. L : B[i] \in Block
    BY <2>1
  <2>3. L + 1 \in Int /\ L \in Int
    BY <2>1
  <2>4. after \in Seq(Block) /\ Len(after) = IF L + 1 <= L THEN L - (L + 1) + 1 ELSE 0
    BY <2>2, <2>3, SubSeqProperties
  <2> HIDE DEF after
  <2>5. Len(after) = 0
    BY <2>1, <2>4
  <2>6. after = <<>>
    BY <2>4, <2>5, EmptySeq
  <2> QED BY <2>6 DEF after, L
<1>7. ~Dangling(point) /\ After(point) = <<>>
  BY <1>3, <1>4, <1>5, <1>6
<1> QED BY <1>7 DEF point

LEMMA StepUntouched ==
  ASSUME CallsWellFormed, TypeInv, UntouchedInv, [Next]_vars
  PROVE  UntouchedInv'
<1>1. ASSUME NEW op, Adds(op), global_running_test, at = "test", Untouched(done')
      PROVE  UNCHANGED <<heap_check_point, global_allocated_blocks>> /\ Untouched(done)
  <2>1. IsSequence(done) /\ done' = Append(done, op)
    BY <1>1 DEF Adds, TypeInv, FlagsOK
  <2>2. /\ Len(done) + 1 \in DOMAIN done' /\ done'[Len(done) + 1] = op
        /\ \A i \in DOMAIN done : i \in DOMAIN done' /\ done'[i] = done[i]
    BY <2>1, CallAdded
  <2>3. op.call \notin HeapCalls /\ Untouched(done)
    BY <1>1, <2>2 DEF Untouched
  <2> QED BY <1>1, <2>3 DEF Adds
<1>2. CASE Calling
  <2>1. global_running_test
    BY <1>2, CallingStep DEF CallStep
  <2>2. CASE \E op : Adds(op)
    <3>1. PICK op : Adds(op)
      BY <2>2
    <3>2. SUFFICES ASSUME at' = "test", Untouched(done')
                   PROVE  (~Dangling(heap_check_point) /\ After(heap_check_point) = <<>>)'
      BY DEF UntouchedInv
    <3>3. at = "test"
      BY <3>1, <3>2 DEF Adds
    <3>4. UNCHANGED <<heap_check_point, global_allocated_blocks>> /\ Untouched(done)
      BY <1>1, <2>1, <3>1, <3>2, <3>3
    <3>5. ~Dangling(heap_check_point) /\ After(heap_check_point) = <<>>
      BY <2>1, <3>3, <3>4 DEF UntouchedInv
    <3> QED BY <3>4, <3>5 DEF Dangling, Allocated, After, Before
  <2>3. CASE \E op : Breaks(op)
    BY <2>3 DEF Breaks, Leave, UntouchedInv
  <2>4. CASE global_running_test' = FALSE
    BY <2>4 DEF UntouchedInv
  <2> QED BY <1>2, <2>2, <2>3, <2>4, CallingCases
<1>3. CASE Return
  <2>1. PICK rc : ReturnsWith(rc)
    BY <1>3, ReturnStep
  <2> QED BY <2>1 DEF ReturnsWith, Leave, UntouchedInv
<1>4. CASE NoFunction \/ Finish
  <2>1. ~global_running_test /\ global_running_test' = global_running_test
    BY <1>4, NoFunctionTyped DEF NoFunction, Finish, TypeInv, FlagsOK, Functions
  <2> QED BY <2>1 DEF UntouchedInv
<1>5. CASE cmocka_run_one_test_or_fixture
  <2>1. /\ UNCHANGED <<at, global_allocated_blocks>> /\ heap_check_point' = CheckPoint
    BY <1>5 DEF cmocka_run_one_test_or_fixture, heap
  <2>2. at = "test" => CheckPoint = check_point_allocated_blocks
    BY DEF CheckPoint
  <2>3. ~Dangling(check_point_allocated_blocks) /\ After(check_point_allocated_blocks) = <<>>
    BY NothingAfterLast DEF TypeInv
  <2>4. ASSUME at = "test" PROVE (~Dangling(heap_check_point) /\ After(heap_check_point) = <<>>)'
    <3>1. heap_check_point' = check_point_allocated_blocks
      BY <2>1, <2>2, <2>4
    <3> QED BY <2>1, <2>3, <3>1 DEF Dangling, Allocated, After, Before
  <2> QED BY <2>1, <2>4 DEF UntouchedInv
<1>6. CASE UNCHANGED vars
  BY <1>6 DEF vars, heap, UntouchedInv, Untouched, Dangling, Allocated, After, Before
<1> QED BY <1>2, <1>3, <1>4, <1>5, <1>6, NextCases

(***************************************************************************)
(* A test that does not pass.                                              *)
(***************************************************************************)
LEMMA NextFound ==
  ASSUME NEW map, NEW s
  PROVE  LET next == get_symbol_value(map, s) IN
         map[s] # <<>> /\ map[s][1].refcount # 0 => next.found /\ next.value = map[s][1].value
<1>1. SUFFICES ASSUME map[s] # <<>>, map[s][1].refcount # 0
               PROVE  LET next == get_symbol_value(map, s) IN
                      next.found /\ next.value = map[s][1].value
  OBVIOUS
<1>2. Head(map[s]) = map[s][1]
  OBVIOUS
<1>3. ~(map[s] = <<>> \/ Head(map[s]).refcount = 0)
  BY <1>1, <1>2
<1>4. get_symbol_value(map, s) = [found |-> TRUE, value |-> Head(map[s]).value,
                                  map |-> [map EXCEPT ![s] = Used(map[s], 1)]]
  BY <1>3 DEF get_symbol_value
<1> QED BY <1>2, <1>4

\* A call that fails it breaks a declaration or asks for it,
LEMMA BreaksNotKept ==
  ASSUME TypeInv, ValuesInv, global_running_test, NEW op, Breaks(op), op.call \notin HeapCalls
  PROVE  ~Kept(done')
<1> DEFINE n == Len(done) + 1
           more == Append(done, op)
<1>1. /\ IsSequence(done) /\ done' = more /\ WellFormed(op)
      /\ \/ ~Clean(op)
         \/ op.call = "mock" /\ ~GetsValue(op)
         \/ op.call = "check_expected" /\ ~MeetsCheck(op)
         \/ op.call = "function_called" /\ Expected(global_call_ordering, op.function) = {}
  BY DEF TypeInv, FlagsOK, Breaks
<1>2. SUFFICES ASSUME Kept(more) PROVE FALSE
  BY <1>1
<1>3. /\ n \in DOMAIN more /\ more[n] = op
      /\ \A i \in DOMAIN done : i \in DOMAIN more /\ more[i] = done[i]
  BY <1>1, CallAdded
<1>4. Clean(op) /\ \A i \in DOMAIN done : Clean(done[i])
  BY <1>2, <1>3 DEF Kept
<1>5. \A s : /\ Given(more, s)
                  = Given(done, s) \union {i \in {n} : op.call = "will_return" /\ op.function = s}
             /\ Taken(more, s) = Taken(done, s) \union {i \in {n} : op.call = "mock" /\ op.function = s}
             /\ Awaited(more, s)
                  = Awaited(done, s) \union {i \in {n} : op.call = "expect_check" /\ op.parameter = s}
             /\ Checks(more, s)
                  = Checks(done, s) \union {i \in {n} : op.call = "check_expected" /\ op.parameter = s}
  BY <1>1, KindsAdded
<1>6. /\ \A f \in Symbols : Fits(more, Given(more, f), Taken(more, f))
      /\ \A p \in Parameters : Fits(more, Awaited(more, p), Checks(more, p))
      /\ OrderKept(more)
  BY <1>2 DEF Kept, ReturnsKept, ParametersKept, Given, Taken, Awaited, Checks
<1>7. CASE op.call = "mock" /\ ~GetsValue(op)
  <2> DEFINE f == op.function
             list == global_function_result_map[f]
  <2>1. f \in Symbols
    BY <1>1, <1>7 DEF WellFormed
  <2>2. ValuesListed(done, Given(done, f), Taken(done, f), list)
    BY <2>1 DEF ValuesInv, ResultsListed
  <2>3. ASSUME NEW j \in Given(done, f)
        PROVE  /\ done[j].count # 0 /\ Value(done[j]) = done[j].value
               /\ Meets(done[j], op) <=> Holds(op.check, done[j].value)
    <3>1. j \in DOMAIN done /\ done[j].call = "will_return"
      BY <2>3 DEF Given, Of
    <3>2. Clean(done[j])
      BY <1>4, <3>1
    <3> QED BY <3>1, <3>2, ValueFacts DEF Clean
  <2>4. list # <<>> /\ list[1].refcount # 0 => ~Holds(op.check, list[1].value)
    BY <1>7, NextFound DEF GetsValue
  <2>5. list # <<>> /\ list[1].refcount # 0
          => \A j \in Given(done, f) : Value(done[j]) = list[1].value => ~Meets(done[j], op)
    BY <2>3, <2>4
  <2>6. \A j \in Given(done, f) : done[j].count # 0
    BY <2>3
  <2> HIDE DEF list
  <2>7. ~Fits(Append(done, op), Given(done, f), Taken(done, f) \union {Len(done) + 1})
    BY <2>2, <2>5, <2>6, FailedUseBreaks
  <2>8. Given(more, f) = Given(done, f) /\ Taken(more, f) = Taken(done, f) \union {n}
    <3> HIDE DEF n, more
    <3> QED BY <1>5, <1>7
  <2> QED BY <1>6, <2>1, <2>7, <2>8
<1>8. CASE op.call = "check_expected" /\ ~MeetsCheck(op)
  <2> DEFINE p == op.parameter
             list == global_function_parameter_map[p]
  <2>1. p \in Parameters
    BY <1>1, <1>8 DEF WellFormed
  <2>2. ValuesListed(done, Awaited(done, p), Checks(done, p), list)
    BY <2>1 DEF ValuesInv, ChecksListed
  <2>3. ASSUME NEW j \in Awaited(done, p)
        PROVE  /\ done[j].count # 0 /\ Value(done[j]) = done[j].check
               /\ Meets(done[j], op) <=> Holds(done[j].check, op.value)
    <3>1. j \in DOMAIN done /\ done[j].call = "expect_check"
      BY <2>3 DEF Awaited, Of
    <3>2. Clean(done[j])
      BY <1>4, <3>1
    <3> QED BY <3>1, <3>2, ValueFacts DEF Clean
  <2>4. list # <<>> /\ list[1].refcount # 0 => ~Holds(list[1].value, op.value)
    BY <1>8, NextFound DEF MeetsCheck
  <2>5. list # <<>> /\ list[1].refcount # 0
          => \A j \in Awaited(done, p) : Value(done[j]) = list[1].value => ~Meets(done[j], op)
    BY <2>3, <2>4
  <2>6. \A j \in Awaited(done, p) : done[j].count # 0
    BY <2>3
  <2> HIDE DEF list
  <2>7. ~Fits(Append(done, op), Awaited(done, p), Checks(done, p) \union {Len(done) + 1})
    BY <2>2, <2>5, <2>6, FailedUseBreaks
  <2>8. Awaited(more, p) = Awaited(done, p) /\ Checks(more, p) = Checks(done, p) \union {n}
    <3> HIDE DEF n, more
    <3> QED BY <1>5, <1>8
  <2> QED BY <1>6, <2>1, <2>7, <2>8
<1>9. CASE op.call = "function_called" /\ Expected(global_call_ordering, op.function) = {}
  <2>1. CallsListed(done, global_call_ordering)
    BY DEF ValuesInv
  <2>2. ASSUME NEW j \in Of(done, "expect_function_call") PROVE done[j].count # 0
    <3>1. j \in DOMAIN done /\ done[j].call = "expect_function_call"
      BY <2>2 DEF Of
    <3>2. Clean(done[j])
      BY <1>4, <3>1
    <3> QED BY <3>1, <3>2 DEF Clean
  <2> QED BY <1>6, <1>9, <2>1, <2>2, FailedCallBreaks
<1> QED BY <1>1, <1>4, <1>7, <1>8, <1>9

\* and values that are left over break one.
LEMMA KeptLeavesNothing ==
  ASSUME TypeInv, ValuesInv, global_running_test, Kept(done)
  PROVE  ~LeftoverValues
<1>1. \A i \in DOMAIN done :
        done[i].call \in {"will_return", "expect_check", "expect_function_call"} => done[i].count # 0
  BY DEF Kept, Clean
<1>2. ASSUME NEW f \in Symbols
      PROVE  remove_always_return_values(global_function_result_map[f]) = <<>>
  <2>1. \A j \in Given(done, f) : done[j].count # 0
    BY <1>1 DEF Given, Of
  <2>2. Fits(done, Given(done, f), Taken(done, f))
    BY DEF Kept, ReturnsKept, Given, Taken
  <2>3. ValuesListed(done, Given(done, f), Taken(done, f), global_function_result_map[f])
    BY DEF ValuesInv, ResultsListed
  <2> QED BY <2>1, <2>2, <2>3, LeftOverBreaks
<1>3. ASSUME NEW p \in Parameters
      PROVE  remove_always_return_values(global_function_parameter_map[p]) = <<>>
  <2>1. \A j \in Awaited(done, p) : done[j].count # 0
    BY <1>1 DEF Awaited, Of
  <2>2. Fits(done, Awaited(done, p), Checks(done, p))
    BY DEF Kept, ParametersKept, Awaited, Checks
  <2>3. ValuesListed(done, Awaited(done, p), Checks(done, p), global_function_parameter_map[p])
    BY DEF ValuesInv, ChecksListed
  <2> QED BY <2>1, <2>2, <2>3, LeftOverBreaks
<1>4. remove_always_return_values_from_list(global_call_ordering) = {}
  <2>1. \A j \in Of(done, "expect_function_call") : done[j].count # 0
    BY <1>1 DEF Of
  <2>2. CallsListed(done, global_call_ordering) /\ OrderKept(done)
    BY DEF ValuesInv, Kept
  <2> QED BY <2>1, <2>2, MissingCallBreaks
<1>5. /\ DOMAIN global_function_result_map = Symbols
      /\ DOMAIN global_function_parameter_map = Parameters
  BY DEF TypeInv, ListsOK
<1> QED BY <1>2, <1>3, <1>4, <1>5
        DEF LeftoverValues, check_for_leftover_values, check_for_leftover_values_list

\* A test that returns and finds no block has no result but its leftovers.
LEMMA TestResult ==
  ASSUME Return, at = "test", ~Dangling(heap_check_point), After(heap_check_point) = <<>>
  PROVE  \E rc : Leave(rc, global_skip_test) /\ (rc = 0 \/ LeftoverValues)
<1>1. PICK op : fail_if_leftover_values(Result(op))
  BY DEF Return, fail_if_blocks_allocated, ReadsFreed
<1>2. Result(op) = 0
  BY DEF Result
<1>3. Leave(IF LeftoverValues THEN -1 ELSE 0, global_skip_test)
  BY <1>1, <1>2 DEF fail_if_leftover_values
<1>4. CASE LeftoverValues
  <2>1. Leave(-1, global_skip_test)
    BY <1>3, <1>4
  <2> QED BY <1>4, <2>1
<1>5. CASE ~LeftoverValues
  <2>1. Leave(0, global_skip_test)
    BY <1>3, <1>5
  <2> QED BY <2>1
<1> QED BY <1>4, <1>5

\* No test is failed for nothing: one that leaves the heap alone and does not
\* pass broke one of its declarations, or asked for it.
THEOREM NoFalseFailureHolds ==
  ASSUME CallsWellFormed
  PROVE  Spec => NoFalseFailure
<1> DEFINE Inv == TypeInv /\ ValuesInv /\ UntouchedInv
<1>1. Init => Inv
  BY InitTyped DEF Init, ValuesInv, UntouchedInv
<1>2. Inv /\ [Next]_vars => Inv'
  BY StepTyped, StepListed, StepUntouched
<1>3. ASSUME Inv, [Next]_vars, TestEnds, status'[test] # "PASSED",
             {done'[i].call : i \in DOMAIN done'} \intersect HeapCalls = {}
      PROVE  ~Kept(done')
  <2>1. /\ at = "test" /\ global_running_test /\ at' = "teardown"
        /\ Untouched(done')
    BY <1>3 DEF TestEnds, Untouched
  <2>2. CASE Return
    <3>1. done' = done
      BY <2>2 DEF Return
    <3>2. ~Dangling(heap_check_point) /\ After(heap_check_point) = <<>>
      BY <1>3, <2>1, <3>1 DEF UntouchedInv
    <3>3. PICK rc : Leave(rc, global_skip_test) /\ (rc = 0 \/ LeftoverValues)
      BY <2>1, <2>2, <3>2, TestResult
    <3>4. rc # 0
      <4>1. SUFFICES ASSUME rc = 0 PROVE FALSE
        OBVIOUS
      <4>2. Becomes("PASSED")
        BY <2>1, <3>3, <4>1 DEF Leave, Proceeds, cmocka_run_one_tests, cmocka_run_group_fixture
      <4>3. status \in [DOMAIN suite.tests -> Verdict] /\ test \in DOMAIN suite.tests
        BY <1>3 DEF TypeInv, ProgramOK
      <4> QED BY <1>3, <4>2, <4>3 DEF Becomes
    <3> QED BY <1>3, <2>1, <3>1, <3>3, <3>4, KeptLeavesNothing
  <2>3. CASE Calling
    <3>1. PICK op : Breaks(op)
      BY <1>3, <2>1, <2>3, CallingCases DEF Adds
    <3>2. op.call \notin HeapCalls
      <4>1. IsSequence(done) /\ done' = Append(done, op)
        BY <1>3, <3>1 DEF Breaks, TypeInv, FlagsOK
      <4>2. Len(done) + 1 \in DOMAIN done' /\ done'[Len(done) + 1] = op
        BY <4>1, CallAdded
      <4> QED BY <2>1, <4>2 DEF Untouched
    <3> QED BY <1>3, <2>1, <3>1, <3>2, BreaksNotKept
  <2> QED BY <1>3, <2>2, <2>3, TestEnding
<1>4. Inv /\ [Next]_vars
      => [TestEnds /\ status'[test] # "PASSED"
          /\ {done'[i].call : i \in DOMAIN done'} \intersect HeapCalls = {}
          => ~Kept(done')]_vars
  BY <1>3
<1> QED BY <1>1, <1>2, <1>4, PTL DEF Spec, NoFalseFailure
===============================================================================
