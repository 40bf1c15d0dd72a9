----------------------------- MODULE CmockaProofs -----------------------------
(***************************************************************************)
(* Theorems about the runner of the unit tests, for every test program and *)
(* whatever calls its functions make, as long as these are well formed.    *)
(*                                                                         *)
(* The inductive invariant has three parts: the types of the runner's      *)
(* state, of its lists and of the heap (TypeInv); who set the skip flag    *)
(* (SkipOK); and where the blocks are that the checkpoints of the heap     *)
(* were taken at (CheckInv), with what follows for the blocks of functions *)
(* that are over (ChargedInv).                                             *)
(***************************************************************************)
EXTENDS Cmocka, SequenceTheorems, FiniteSetTheorems, WellFoundedInduction, FunctionTheorems, TLAPS

IsSequence(s) == \E S : s \in Seq(S)

\* The names of a test program's functions.
Names(s) ==
  {s.group_setup, s.group_teardown}
    \union {s.tests[i].setup : i \in DOMAIN s.tests} \union {s.tests[i].test : i \in DOMAIN s.tests}
    \union {s.tests[i].teardown : i \in DOMAIN s.tests}

\* Whatever a function called before, what it may call next is well formed.
CallsWellFormed ==
  \A s \in Suites : \A name \in Names(s) : \A calls :
    IsSequence(calls) => \A op \in MayCall(name, calls) : WellFormed(op)

Counts == {WILL_RETURN_ALWAYS, WILL_RETURN_ONCE} \union Nat

\* A list of values with counts.
IsList(list) ==
  /\ IsSequence(list)
  /\ \A i \in DOMAIN list : list[i] = ListNode(list[i].value, list[i].refcount)
                              /\ list[i].refcount \in Counts

(***************************************************************************)
(* Sequences.                                                              *)
(***************************************************************************)
\* The elements of a sequence are a set it is a sequence over.
LEMMA SequenceFacts ==
  ASSUME NEW s, IsSequence(s)
  PROVE  /\ Len(s) \in Nat /\ DOMAIN s = 1 .. Len(s)
         /\ \A x : IsSequence(Append(s, x))
         /\ \A x : Len(Append(s, x)) = Len(s) + 1 /\ Append(s, x)[Len(s) + 1] = x
         /\ \A x : \A i \in 1 .. Len(s) : Append(s, x)[i] = s[i]
         /\ \A x : DOMAIN Append(s, x) = 1 .. Len(s) + 1
<1>1. PICK S : s \in Seq(S)
  BY DEF IsSequence
<1>2. Len(s) \in Nat /\ DOMAIN s = 1 .. Len(s)
  BY <1>1, LenProperties
<1>3. ASSUME NEW x
      PROVE  /\ Append(s, x) \in Seq(S \union {x}) /\ Len(Append(s, x)) = Len(s) + 1
             /\ Append(s, x)[Len(s) + 1] = x
             /\ \A i \in 1 .. Len(s) : Append(s, x)[i] = s[i]
  <2>1. s \in Seq(S \union {x})
    BY <1>1, SeqMonotonic
  <2> QED BY <2>1, AppendProperties
<1>4. ASSUME NEW x PROVE DOMAIN Append(s, x) = 1 .. Len(s) + 1
  BY <1>3, LenProperties
<1> QED BY <1>2, <1>3, <1>4 DEF IsSequence

\* What is left of a sequence without one of its elements.
LEMMA RemoveAtFacts ==
  ASSUME NEW S, NEW s \in Seq(S), NEW i \in 1 .. Len(s)
  PROVE  /\ RemoveAt(s, i) \in Seq(S) /\ Len(RemoveAt(s, i)) = Len(s) - 1
         /\ DOMAIN RemoveAt(s, i) = 1 .. Len(s) - 1
         /\ \A k \in 1 .. Len(s) - 1 : RemoveAt(s, i)[k] = IF k < i THEN s[k] ELSE s[k + 1]
<1> DEFINE a == SubSeq(s, 1, i - 1)
           b == SubSeq(s, i + 1, Len(s))
<1>0. Len(s) \in Nat /\ i \in Int /\ 1 <= i /\ i <= Len(s)
  BY LenProperties
<1>1. /\ a \in Seq(S) /\ Len(a) = i - 1
      /\ \A k \in 1 .. i - 1 : a[k] = s[k]
  <2>1. \A k \in 1 .. i - 1 : k \in 1 .. Len(s)
    BY <1>0
  <2>2. 1 \in 1 .. Len(s) + 1 /\ i - 1 \in 0 .. Len(s)
    BY <1>0
  <2> QED BY <1>0, <2>1, <2>2, SubSeqProperties
<1>2. /\ b \in Seq(S) /\ Len(b) = Len(s) - i
      /\ \A k \in 1 .. Len(s) - i : b[k] = s[k + i]
  <2>1. i + 1 \in 1 .. Len(s) + 1 /\ Len(s) \in 0 .. Len(s)
    BY <1>0
  <2> QED BY <1>0, <2>1, SubSeqProperties
<1> HIDE DEF a, b
<1>3. /\ a \o b \in Seq(S) /\ Len(a \o b) = Len(s) - 1
      /\ \A k \in 1 .. Len(s) - 1 : (a \o b)[k] = IF k <= i - 1 THEN a[k] ELSE b[k - (i - 1)]
  <2>1. Len(a) + Len(b) = Len(s) - 1
    BY <1>0, <1>1, <1>2
  <2>2. /\ a \o b \in Seq(S) /\ Len(a \o b) = Len(a) + Len(b)
        /\ \A k \in 1 .. Len(a) + Len(b) :
              (a \o b)[k] = IF k <= Len(a) THEN a[k] ELSE b[k - Len(a)]
    BY <1>1, <1>2, ConcatProperties
  <2>3. Len(a) = i - 1
    BY <1>1
  <2> QED BY <2>1, <2>2, <2>3
<1>4. ASSUME NEW k \in 1 .. Len(s) - 1
      PROVE  (a \o b)[k] = IF k < i THEN s[k] ELSE s[k + 1]
  <2>1. CASE k < i
    <3>1. k <= i - 1 /\ k \in 1 .. i - 1
      BY <1>0, <2>1
    <3> QED BY <1>1, <1>3, <2>1, <3>1
  <2>2. CASE ~(k < i)
    <3>1. ~(k <= i - 1) /\ k - (i - 1) \in 1 .. Len(s) - i /\ k - (i - 1) + i = k + 1
      BY <1>0, <2>2
    <3> QED BY <1>2, <1>3, <2>2, <3>1
  <2> QED BY <2>1, <2>2
<1>5. RemoveAt(s, i) = a \o b
  BY DEF RemoveAt, a, b
<1>6. DOMAIN (a \o b) = 1 .. Len(s) - 1
  BY <1>3, LenProperties
<1> QED BY <1>3, <1>4, <1>5, <1>6

(***************************************************************************)
(* Lists of values.                                                        *)
(***************************************************************************)
\* The empty list is one.
LEMMA NoValues == IsList(<<>>)
<1>1. <<>> \in Seq({})
  BY EmptySeq
<1>2. DOMAIN <<>> = {}
  OBVIOUS
<1> QED BY <1>1, <1>2 DEF IsList, IsSequence

\* A value added to a list,
LEMMA ListAdded ==
  ASSUME NEW list, IsList(list), NEW value, NEW count \in Counts
  PROVE  IsList(list_add_value(list, value, count))
<1> DEFINE node == ListNode(value, count)
           new == Append(list, node)
<1>1. node = ListNode(node.value, node.refcount) /\ node.refcount \in Counts
  BY DEF ListNode
<1>2. /\ IsSequence(new) /\ DOMAIN new = 1 .. Len(list) + 1 /\ Len(list) \in Nat
      /\ new[Len(list) + 1] = node /\ \A i \in 1 .. Len(list) : new[i] = list[i]
      /\ DOMAIN list = 1 .. Len(list)
  BY SequenceFacts DEF IsList
<1> HIDE DEF node
<1>3. ASSUME NEW i \in DOMAIN new
      PROVE  new[i] = ListNode(new[i].value, new[i].refcount) /\ new[i].refcount \in Counts
  <2>1. CASE i = Len(list) + 1
    BY <1>1, <1>2, <2>1
  <2>2. CASE i \in 1 .. Len(list)
    BY <1>2, <2>2 DEF IsList
  <2> QED BY <1>2, <2>1, <2>2
<1> HIDE DEF new
<1> QED BY <1>2, <1>3 DEF IsList, list_add_value, new, node

\* and one that is used once more.
LEMMA ListUsed ==
  ASSUME NEW list, IsList(list), NEW i \in DOMAIN list
  PROVE  IsList(Used(list, i))
<1>1. PICK S : list \in Seq(S)
  BY DEF IsList, IsSequence
<1>2. DOMAIN list = 1 .. Len(list) /\ Len(list) \in Nat
  BY <1>1, LenProperties
<1>3. CASE list[i].refcount = 1
  <2>1. /\ RemoveAt(list, i) \in Seq(S) /\ DOMAIN RemoveAt(list, i) = 1 .. Len(list) - 1
        /\ \A k \in 1 .. Len(list) - 1 :
              RemoveAt(list, i)[k] = IF k < i THEN list[k] ELSE list[k + 1]
    BY <1>1, <1>2, RemoveAtFacts
  <2>2. ASSUME NEW k \in 1 .. Len(list) - 1
        PROVE  \E j \in DOMAIN list : RemoveAt(list, i)[k] = list[j]
    <3>1. k \in DOMAIN list /\ k + 1 \in DOMAIN list
      BY <1>2
    <3> QED BY <2>1, <3>1
  <2>3. IsList(RemoveAt(list, i))
    BY <2>1, <2>2 DEF IsList, IsSequence
  <2> QED BY <1>3, <2>3 DEF Used
<1>4. CASE list[i].refcount # 1 /\ list[i].refcount > WILL_RETURN_ONCE
  <2> DEFINE node == [list[i] EXCEPT !.refcount = @ - 1]
             new == [list EXCEPT ![i] = node]
  <2>1. list[i] = ListNode(list[i].value, list[i].refcount) /\ list[i].refcount \in Counts
    BY DEF IsList
  <2>2. node = ListNode(list[i].value, list[i].refcount - 1)
    BY <2>1 DEF ListNode
  <2>3. list[i].refcount - 1 \in Counts
    BY <1>4, <2>1 DEF Counts, WILL_RETURN_ALWAYS, WILL_RETURN_ONCE
  <2>4. node = ListNode(node.value, node.refcount) /\ node.refcount \in Counts
    BY <2>2, <2>3 DEF ListNode
  <2> HIDE DEF node
  <2>5. IsSequence(new)
    <3>1. list \in Seq(S \union {node})
      BY <1>1, SeqMonotonic
    <3>2. new \in Seq(S \union {node})
      BY <1>2, <3>1, ExceptSeq
    <3> QED BY <3>2 DEF IsSequence
  <2>6. DOMAIN new = DOMAIN list /\ \A k \in DOMAIN list : new[k] = IF k = i THEN node ELSE list[k]
    OBVIOUS
  <2>7. IsList(new)
    BY <2>4, <2>5, <2>6 DEF IsList
  <2>8. Used(list, i) = new
    BY <1>4, Zenon DEF Used, new, node
  <2> QED BY <2>7, <2>8
<1>5. CASE list[i].refcount # 1 /\ ~(list[i].refcount > WILL_RETURN_ONCE)
  BY <1>5 DEF Used
<1> QED BY <1>3, <1>4, <1>5

(***************************************************************************)
(* Types.                                                                  *)
(***************************************************************************)
Points == Addresses \union {head, NULL}
Places == Functions \X DOMAIN suite.tests

\* The program and where its runner is.
ProgramOK ==
  /\ suite \in Suites /\ test \in DOMAIN suite.tests
  /\ at \in Functions \union {"finish", "ended"}
  /\ status \in [DOMAIN suite.tests -> Verdict]
  /\ code \in {RUNS, EXITED, KILLED} \union Nat
  /\ group_error \in BOOLEAN /\ check_point \in Points

\* The function that runs, if one does, and what it leaves behind.
FlagsOK ==
  /\ global_running_test \in BOOLEAN
  /\ global_running_test => at \in Functions /\ Function # None /\ heap_check_point # NULL
  /\ heap_check_point \in Points
  /\ global_skip_test \in BOOLEAN /\ global_expecting_assert \in BOOLEAN
  /\ skipped \subseteq Places /\ lost \subseteq Places
  /\ IsSequence(done)

\* The three lists, which are empty while no function runs.
ListsOK ==
  /\ DOMAIN global_function_result_map = Symbols
  /\ DOMAIN global_function_parameter_map = Parameters
  /\ \A s \in Symbols : IsList(global_function_result_map[s])
  /\ \A p \in Parameters : IsList(global_function_parameter_map[p])
  /\ IsList(global_call_ordering)
  /\ ~global_running_test =>
       /\ global_function_result_map = [s \in Symbols |-> <<>>]
       /\ global_function_parameter_map = [p \in Parameters |-> <<>>]
       /\ global_call_ordering = <<>>

Block == [address : Addresses, guarded : BOOLEAN, by : Functions \X Nat]

\* No two blocks share an address.
Distinct(blocks) ==
  \A i, j \in DOMAIN blocks : blocks[i].address = blocks[j].address => i = j

AddressesOf(blocks) == {blocks[i].address : i \in DOMAIN blocks}

\* No variable of a program points to a block that is not there.
HeapOK ==
  /\ global_allocated_blocks \in Seq(Block) /\ Distinct(global_allocated_blocks)
  /\ DOMAIN pointer = Pointers
  /\ \A p \in Pointers : pointer[p] \in {0} \union AddressesOf(global_allocated_blocks)

TypeInv == ProgramOK /\ FlagsOK /\ ListsOK /\ HeapOK

\* There is at least one test.
LEMMA TestsOf ==
  ASSUME NEW s \in Suites
  PROVE  Len(s.tests) \in Nat \ {0} /\ DOMAIN s.tests = 1 .. Len(s.tests)
<1>1. s.tests # <<>> /\ s.tests \in Seq([setup : STRING, test : STRING \ {None}, teardown : STRING])
  BY SuitesAssumption
<1> DEFINE T == [setup : STRING, test : STRING \ {None}, teardown : STRING]
<1> HIDE DEF T
<1>2. s.tests \in Seq(T)
  BY <1>1 DEF T
<1> QED BY <1>1, <1>2, EmptySeq, LenProperties

\* The runner goes on to the next function.
LEMMA ProceedsTyped ==
  ASSUME ProgramOK, NEW rc, NEW skip \in BOOLEAN, Proceeds(rc, skip)
  PROVE  /\ ProgramOK' /\ suite' = suite /\ global_skip_test' \in {skip, FALSE}
         /\ Places' = Places
<1>1. /\ Len(suite.tests) \in Nat \ {0} /\ DOMAIN suite.tests = 1 .. Len(suite.tests)
      /\ test \in 1 .. Len(suite.tests)
  BY TestsOf DEF ProgramOK
<1>2. /\ suite' = suite /\ code' = code
      /\ group_error' = (group_error \/ (at = "group_setup" /\ rc # 0))
      /\ cmocka_run_one_tests(rc, skip) \/ cmocka_run_group_fixture(rc, skip)
      /\ check_point' = IF at' \in {"test", "teardown"} THEN check_point ELSE NULL
  BY DEF Proceeds
<1>3. ASSUME NextTest PROVE test' \in DOMAIN suite.tests /\ at' \in {"setup", "group_teardown"}
  BY <1>1, <1>3 DEF NextTest
<1>4. ASSUME NEW v \in Verdict, Becomes(v) PROVE status' \in [DOMAIN suite.tests -> Verdict]
  BY <1>4 DEF Becomes, ProgramOK
<1>5. /\ test' \in DOMAIN suite.tests
      /\ at' \in {"setup", "test", "teardown", "group_teardown", "finish"}
      /\ status' \in [DOMAIN suite.tests -> Verdict]
      /\ global_skip_test' \in {skip, FALSE}
  <2>1. CASE at = "setup" /\ rc = 0 /\ at' = "test" /\ global_skip_test' = skip
               /\ UNCHANGED <<test, status>>
    BY <2>1 DEF ProgramOK
  <2>2. CASE Becomes("ERROR") /\ NextTest /\ global_skip_test' = skip
    <3>1. "ERROR" \in Verdict
      BY DEF Verdict
    <3> QED BY <1>3, <1>4, <2>2, <3>1
  <2>3. CASE /\ Becomes(IF rc = 0 THEN "PASSED" ELSE IF skip THEN "SKIPPED" ELSE "FAILED")
             /\ at' = "teardown" /\ global_skip_test' = Unskipped(rc, skip) /\ UNCHANGED test
    <3>1. (IF rc = 0 THEN "PASSED" ELSE IF skip THEN "SKIPPED" ELSE "FAILED") \in Verdict
      BY DEF Verdict
    <3>2. global_skip_test' \in {skip, FALSE}
      BY <2>3 DEF Unskipped
    <3> QED BY <1>4, <2>3, <3>1, <3>2 DEF ProgramOK
  <2>4. CASE /\ IF rc = 0 THEN UNCHANGED status ELSE Becomes("ERROR")
             /\ NextTest /\ global_skip_test' = skip
    <3>1. "ERROR" \in Verdict
      BY DEF Verdict
    <3> QED BY <1>3, <1>4, <2>4, <3>1 DEF ProgramOK
  <2>5. CASE cmocka_run_group_fixture(rc, skip)
    BY <2>5 DEF cmocka_run_group_fixture, ProgramOK
  <2> QED BY <1>2, <2>1, <2>2, <2>3, <2>4, <2>5 DEF cmocka_run_one_tests
<1>6. ProgramOK'
  BY <1>2, <1>5 DEF ProgramOK, Functions, Points
<1> QED BY <1>2, <1>5, <1>6 DEF Places

\* A call after which the function goes on,
LEMMA GoesTyped ==
  ASSUME TypeInv, global_running_test, NEW op, Goes(op), ListsOK', HeapOK', lost' \subseteq Places
  PROVE  TypeInv'
<1>1. /\ done' = Append(done, op)
      /\ UNCHANGED <<suite, runner, global_running_test, global_skip_test,
                     global_expecting_assert, skipped>>
  BY DEF Goes
<1>2. IsSequence(done')
  BY <1>1, SequenceFacts DEF TypeInv, FlagsOK
<1> QED BY <1>1, <1>2 DEF TypeInv, ProgramOK, FlagsOK, Places, Function, runner

\* and the end of one.
LEMMA LeaveTyped ==
  ASSUME TypeInv, NEW rc, NEW skip \in BOOLEAN, Leave(rc, skip), HeapOK',
         IsSequence(done'), global_expecting_assert' \in BOOLEAN,
         skipped' \subseteq Places, lost' \subseteq Places
  PROVE  TypeInv'
<1>1. ProgramOK' /\ suite' = suite /\ global_skip_test' \in {skip, FALSE} /\ Places' = Places
  BY ProceedsTyped DEF Leave, TypeInv
<1>2. /\ NoMaps /\ global_running_test' = FALSE /\ heap_check_point' = NULL
  BY DEF Leave
<1>3. ListsOK'
  BY <1>2, NoValues DEF NoMaps, ListsOK
<1>4. FlagsOK'
  BY <1>1, <1>2 DEF FlagsOK, Points
<1> QED BY <1>1, <1>3, <1>4 DEF TypeInv

\* So does a call that fails its function.
LEMMA FailsTyped ==
  ASSUME TypeInv, NEW op, Fails(op), HeapOK', UNCHANGED lost
  PROVE  TypeInv'
<1>1. /\ done' = Append(done, op) /\ Leave(-1, global_skip_test)
      /\ UNCHANGED <<global_expecting_assert, skipped>>
  BY DEF Fails, exit_test
<1>2. IsSequence(done')
  BY <1>1, SequenceFacts DEF TypeInv, FlagsOK
<1> QED BY <1>1, <1>2, LeaveTyped DEF TypeInv, FlagsOK

(***************************************************************************)
(* The heap.                                                               *)
(***************************************************************************)
\* A list of blocks from which some were removed.
Thinned(new, old) ==
  \E f \in [1 .. Len(new) -> 1 .. Len(old)] :
    /\ \A i, j \in 1 .. Len(new) : i < j => f[i] < f[j]
    /\ \A i \in 1 .. Len(new) : new[i] = old[f[i]]

\* Who allocated the blocks, and who those up to a checkpoint.
By(blocks) == {blocks[i].by : i \in DOMAIN blocks}

OlderBy(blocks, point) ==
  {blocks[i].by : i \in {k \in DOMAIN blocks :
                         \E j \in DOMAIN blocks : k <= j /\ blocks[j].address = point}}

\* What is left is what was there, in the same order.
LEMMA ThinnedFacts ==
  ASSUME NEW old \in Seq(Block), NEW new \in Seq(Block), Thinned(new, old), Distinct(old)
  PROVE  /\ Distinct(new) /\ AddressesOf(new) \subseteq AddressesOf(old)
         /\ By(new) \subseteq By(old)
         /\ \A point : OlderBy(new, point) \subseteq OlderBy(old, point)
<1>1. PICK f \in [1 .. Len(new) -> 1 .. Len(old)] :
        /\ \A i, j \in 1 .. Len(new) : i < j => f[i] < f[j]
        /\ \A i \in 1 .. Len(new) : new[i] = old[f[i]]
  BY DEF Thinned
<1>2. /\ DOMAIN new = 1 .. Len(new) /\ DOMAIN old = 1 .. Len(old)
      /\ Len(new) \in Nat /\ Len(old) \in Nat
  BY LenProperties
<1>3. \A i \in DOMAIN new : f[i] \in DOMAIN old /\ new[i] = old[f[i]]
  BY <1>1, <1>2
<1>4. Distinct(new)
  <2>1. SUFFICES ASSUME NEW i \in DOMAIN new, NEW j \in DOMAIN new,
                        new[i].address = new[j].address, i # j
                 PROVE  FALSE
    BY DEF Distinct
  <2>2. f[i] = f[j]
    BY <1>3, <2>1 DEF Distinct
  <2>3. i < j \/ j < i
    BY <1>2, <2>1
  <2>4. f[i] < f[j] \/ f[j] < f[i]
    BY <1>1, <1>2, <2>3
  <2>5. f[i] \in Nat /\ f[j] \in Nat
    BY <1>1, <1>2
  <2> QED BY <2>2, <2>4, <2>5
<1>5. AddressesOf(new) \subseteq AddressesOf(old) /\ By(new) \subseteq By(old)
  <2>1. ASSUME NEW a \in AddressesOf(new) PROVE a \in AddressesOf(old)
    <3>1. PICK i \in DOMAIN new : a = new[i].address
      BY <2>1 DEF AddressesOf
    <3>2. a = old[f[i]].address /\ f[i] \in DOMAIN old
      BY <1>3, <3>1
    <3> QED BY <3>2 DEF AddressesOf
  <2>2. ASSUME NEW w \in By(new) PROVE w \in By(old)
    <3>1. PICK i \in DOMAIN new : w = new[i].by
      BY <2>2 DEF By
    <3>2. w = old[f[i]].by /\ f[i] \in DOMAIN old
      BY <1>3, <3>1
    <3> QED BY <3>2 DEF By
  <2> QED BY <2>1, <2>2
<1>6. ASSUME NEW point, NEW w \in OlderBy(new, point)
      PROVE  w \in OlderBy(old, point)
  <2>1. PICK k \in DOMAIN new, j \in DOMAIN new : k <= j /\ new[j].address = point /\ w = new[k].by
    BY <1>6 DEF OlderBy
  <2>2. f[k] \in DOMAIN old /\ f[j] \in DOMAIN old /\ w = old[f[k]].by /\ old[f[j]].address = point
    BY <1>3, <2>1
  <2>3. f[k] <= f[j]
    <3>1. k = j \/ k < j
      BY <1>2, <2>1
    <3>2. f[k] \in Nat /\ f[j] \in Nat
      BY <1>2, <2>2
    <3> QED BY <1>1, <1>2, <3>1, <3>2
  <2> QED BY <2>2, <2>3 DEF OlderBy
<1> QED BY <1>4, <1>5, <1>6

\* The block of an address is removed, the others stay.
LEMMA WithoutFacts ==
  ASSUME NEW blocks \in Seq(Block), Distinct(blocks), NEW address
  PROVE  /\ Without(blocks, address) \in Seq(Block) /\ Thinned(Without(blocks, address), blocks)
         /\ AddressesOf(Without(blocks, address)) = AddressesOf(blocks) \ {address}
<1> DEFINE node == {i \in DOMAIN blocks : blocks[i].address = address}
           new == Without(blocks, address)
<1>1. DOMAIN blocks = 1 .. Len(blocks) /\ Len(blocks) \in Nat
  BY LenProperties
<1>2. CASE node = {}
  <2>1. new = blocks
    BY <1>2 DEF Without
  <2>2. Thinned(blocks, blocks)
    <3> DEFINE f == [i \in 1 .. Len(blocks) |-> i]
    <3>1. f \in [1 .. Len(blocks) -> 1 .. Len(blocks)]
      OBVIOUS
    <3> QED BY <3>1 DEF Thinned
  <2>3. AddressesOf(blocks) = AddressesOf(blocks) \ {address}
    BY <1>2 DEF AddressesOf
  <2> QED BY <2>1, <2>2, <2>3
<1>3. CASE node # {}
  <2> DEFINE i == CHOOSE k \in node : TRUE
  <2>1. i \in node
    BY <1>3
  <2>2. i \in 1 .. Len(blocks) /\ blocks[i].address = address
    BY <1>1, <2>1
  <2>3. new = RemoveAt(blocks, i)
    BY <1>3 DEF Without
  <2> HIDE DEF i, node, new
  <2>4. /\ new \in Seq(Block) /\ Len(new) = Len(blocks) - 1 /\ DOMAIN new = 1 .. Len(blocks) - 1
        /\ \A k \in 1 .. Len(blocks) - 1 : new[k] = IF k < i THEN blocks[k] ELSE blocks[k + 1]
    BY <2>2, <2>3, RemoveAtFacts
  <2>5. Thinned(new, blocks)
    <3> DEFINE f == [k \in 1 .. Len(new) |-> IF k < i THEN k ELSE k + 1]
    <3>1. \A k \in 1 .. Len(new) : (IF k < i THEN k ELSE k + 1) \in 1 .. Len(blocks)
      BY <1>1, <2>2, <2>4
    <3>2. f \in [1 .. Len(new) -> 1 .. Len(blocks)]
      BY <3>1
    <3>3. \A k, j \in 1 .. Len(new) : k < j => f[k] < f[j]
      BY <1>1, <2>2, <2>4
    <3>4. \A k \in 1 .. Len(new) : new[k] = blocks[f[k]]
      BY <2>4
    <3> QED BY <3>2, <3>3, <3>4 DEF Thinned
  <2>6. ASSUME NEW a \in AddressesOf(new) PROVE a \in AddressesOf(blocks) \ {address}
    <3>1. PICK k \in 1 .. Len(blocks) - 1 : a = new[k].address
      BY <2>4, <2>6 DEF AddressesOf
    <3> DEFINE m == IF k < i THEN k ELSE k + 1
    <3>2. m \in DOMAIN blocks /\ m # i /\ new[k] = blocks[m]
      BY <1>1, <2>2, <2>4, <3>1
    <3> HIDE DEF m
    <3>3. blocks[m].address # address
      BY <1>1, <2>2, <3>2 DEF Distinct
    <3> QED BY <3>1, <3>2, <3>3 DEF AddressesOf
  <2>7. ASSUME NEW a \in AddressesOf(blocks), a # address PROVE a \in AddressesOf(new)
    <3>1. PICK m \in 1 .. Len(blocks) : a = blocks[m].address
      BY <1>1, <2>7 DEF AddressesOf
    <3>2. m # i
      BY <2>2, <2>7, <3>1
    <3> DEFINE k == IF m < i THEN m ELSE m - 1
    <3>3. k \in 1 .. Len(blocks) - 1 /\ (k < i => k = m) /\ (~(k < i) => k + 1 = m)
      BY <1>1, <2>2, <3>1, <3>2
    <3> HIDE DEF k
    <3>4. new[k] = blocks[m]
      BY <2>4, <3>3
    <3> QED BY <2>4, <3>1, <3>3, <3>4 DEF AddressesOf
  <2> QED BY <2>4, <2>5, <2>6, <2>7 DEF new
<1> QED BY <1>2, <1>3

\* A new block comes last.
LEMMA AppendFacts ==
  ASSUME NEW blocks \in Seq(Block), Distinct(blocks), NEW b \in Block,
         b.address \notin AddressesOf(blocks)
  PROVE  /\ Append(blocks, b) \in Seq(Block) /\ Distinct(Append(blocks, b))
         /\ AddressesOf(Append(blocks, b)) = AddressesOf(blocks) \union {b.address}
         /\ By(Append(blocks, b)) = By(blocks) \union {b.by}
         /\ \A point : point # b.address => OlderBy(Append(blocks, b), point) = OlderBy(blocks, point)
<1> DEFINE new == Append(blocks, b)
           n == Len(blocks)
<1>1. /\ n \in Nat /\ DOMAIN blocks = 1 .. n /\ new \in Seq(Block) /\ DOMAIN new = 1 .. n + 1
      /\ new[n + 1] = b /\ \A i \in 1 .. n : new[i] = blocks[i]
  <2>1. n \in Nat /\ DOMAIN blocks = 1 .. n
    BY LenProperties
  <2>2. new \in Seq(Block) /\ Len(new) = n + 1 /\ new[n + 1] = b /\ \A i \in 1 .. n : new[i] = blocks[i]
    BY AppendProperties
  <2>3. DOMAIN new = 1 .. Len(new)
    BY <2>2, LenProperties
  <2> QED BY <2>1, <2>2, <2>3
<1> HIDE DEF new, n
<1>2. \A i \in 1 .. n + 1 : i = n + 1 \/ i \in 1 .. n
  BY <1>1
<1>3. 1 .. n \subseteq 1 .. n + 1 /\ n + 1 \in 1 .. n + 1 /\ n + 1 \notin 1 .. n
  BY <1>1
<1>4. \A i \in 1 .. n : new[i].address # b.address
  BY <1>1 DEF AddressesOf
<1>5. Distinct(new)
  BY <1>1, <1>2, <1>4 DEF Distinct
<1>6. AddressesOf(new) = AddressesOf(blocks) \union {b.address} /\ By(new) = By(blocks) \union {b.by}
  <2>1. AddressesOf(new) \subseteq AddressesOf(blocks) \union {b.address} /\ By(new) \subseteq By(blocks) \union {b.by}
    BY <1>1, <1>2 DEF AddressesOf, By
  <2>2. AddressesOf(blocks) \subseteq AddressesOf(new) /\ By(blocks) \subseteq By(new)
    BY <1>1, <1>3 DEF AddressesOf, By
  <2>3. b.address \in AddressesOf(new) /\ b.by \in By(new)
    BY <1>1, <1>3 DEF AddressesOf, By
  <2> QED BY <2>1, <2>2, <2>3
<1>7. ASSUME NEW point, point # b.address PROVE OlderBy(new, point) = OlderBy(blocks, point)
  <2>1. ASSUME NEW w \in OlderBy(new, point) PROVE w \in OlderBy(blocks, point)
    <3>1. PICK k \in DOMAIN new, j \in DOMAIN new : k <= j /\ new[j].address = point /\ w = new[k].by
      BY <2>1 DEF OlderBy
    <3>2. j \in 1 .. n
      BY <1>1, <1>2, <1>7, <3>1
    <3>3. k \in 1 .. n
      BY <1>1, <3>1, <3>2
    <3> QED BY <1>1, <3>1, <3>2, <3>3 DEF OlderBy
  <2>2. ASSUME NEW w \in OlderBy(blocks, point) PROVE w \in OlderBy(new, point)
    <3>1. PICK k \in 1 .. n, j \in 1 .. n : k <= j /\ blocks[j].address = point /\ w = blocks[k].by
      BY <1>1, <2>2 DEF OlderBy
    <3>2. k \in DOMAIN new /\ j \in DOMAIN new
      BY <1>1, <1>3
    <3> QED BY <1>1, <3>1, <3>2 DEF OlderBy
  <2> QED BY <2>1, <2>2
<1> QED BY <1>1, <1>5, <1>6, <1>7 DEF new

\* A damaged block is where it was.
LEMMA DamagedFacts ==
  ASSUME NEW blocks \in Seq(Block), Distinct(blocks), NEW m \in DOMAIN blocks,
         NEW new, new = [blocks EXCEPT ![m].guarded = FALSE]
  PROVE  /\ new \in Seq(Block) /\ Distinct(new) /\ AddressesOf(new) = AddressesOf(blocks)
         /\ By(new) = By(blocks) /\ \A point : OlderBy(new, point) = OlderBy(blocks, point)
<1> DEFINE b == [blocks[m] EXCEPT !.guarded = FALSE]
<1>1. blocks[m] \in Block
  BY LenProperties, ElementOfSeq
<1>2. b \in Block /\ b.address = blocks[m].address /\ b.by = blocks[m].by
  BY <1>1 DEF Block
<1>3. new = [blocks EXCEPT ![m] = b]
  OBVIOUS
<1> HIDE DEF b
<1>4. new \in Seq(Block)
  <2>1. m \in 1 .. Len(blocks)
    BY LenProperties
  <2>2. b \in Block
    BY <1>2
  <2>3. [blocks EXCEPT ![m] = b] \in Seq(Block)
    BY <2>1, <2>2, ExceptSeq
  <2> QED BY <1>3, <2>3, Zenon
<1>5. /\ DOMAIN new = DOMAIN blocks
      /\ \A i \in DOMAIN blocks : new[i].address = blocks[i].address /\ new[i].by = blocks[i].by
  BY <1>2, <1>3
<1>6. Distinct(new)
  BY <1>5 DEF Distinct
<1>7. AddressesOf(new) = AddressesOf(blocks)
  BY <1>5 DEF AddressesOf
<1>8. By(new) = By(blocks)
  BY <1>5 DEF By
<1>9. ASSUME NEW point PROVE OlderBy(new, point) = OlderBy(blocks, point)
  <2>1. {k \in DOMAIN new : \E j \in DOMAIN new : k <= j /\ new[j].address = point} =
        {k \in DOMAIN blocks : \E j \in DOMAIN blocks : k <= j /\ blocks[j].address = point}
    BY <1>5
  <2> QED BY <1>5, <2>1 DEF OlderBy
<1> QED BY <1>4, <1>6, <1>7, <1>8, <1>9

\* A checkpoint that does not dangle has a place in the list.
LEMMA PointFacts ==
  ASSUME HeapOK, NEW point \in Points, point # NULL, ~Dangling(point)
  PROVE  \E n \in 0 .. Len(global_allocated_blocks) :
           /\ Before(point) = SubSeq(global_allocated_blocks, 1, n)
           /\ After(point) = SubSeq(global_allocated_blocks, n + 1, Len(global_allocated_blocks))
           /\ point = head => n = 0
           /\ point # head => n > 0 /\ global_allocated_blocks[n].address = point
<1> DEFINE B == global_allocated_blocks
           Is(i) == IF point = head THEN i = 0 ELSE i > 0 /\ B[i].address = point
           n == CHOOSE i \in 0 .. Len(B) : Is(i)
<1>1. B \in Seq(Block) /\ Len(B) \in Nat /\ DOMAIN B = 1 .. Len(B)
  BY LenProperties DEF HeapOK
<1>2. \E i \in 0 .. Len(B) : Is(i)
  <2>1. CASE point = head
    BY <1>1, <2>1
  <2>2. CASE point # head
    <3>1. PICK i \in DOMAIN B : B[i].address = point
      BY <2>2 DEF Dangling, Allocated
    <3>2. i \in 0 .. Len(B) /\ i > 0
      BY <1>1, <3>1
    <3> QED BY <2>2, <3>1, <3>2
  <2> QED BY <2>1, <2>2
<1>3. n \in 0 .. Len(B) /\ Is(n)
  BY <1>2
<1>4. Before(point) = SubSeq(B, 1, n)
  BY DEF Before
<1>5. Len(SubSeq(B, 1, n)) = n
  <2>1. \A i \in 1 .. n : B[i] \in Block
    BY <1>1, <1>3, ElementOfSeq
  <2>2. n \in Int /\ 1 \in Int
    BY <1>3
  <2>3. Len(SubSeq(B, 1, n)) = IF 1 <= n THEN n - 1 + 1 ELSE 0
    BY <2>1, <2>2, SubSeqProperties
  <2> HIDE DEF n
  <2> QED BY <1>3, <2>3
<1>6. After(point) = SubSeq(B, n + 1, Len(B))
  BY <1>4, <1>5 DEF After
<1> HIDE DEF n
<1>7. /\ point = head => n = 0
      /\ point # head => n > 0 /\ B[n].address = point
  BY <1>3
<1> QED BY <1>3, <1>4, <1>6, <1>7

\* If nothing comes after a checkpoint all blocks are older.
LEMMA NothingAfter ==
  ASSUME HeapOK, NEW point \in Points, point # NULL, ~Dangling(point), After(point) = <<>>
  PROVE  By(global_allocated_blocks) \subseteq
           IF point = head THEN {} ELSE OlderBy(global_allocated_blocks, point)
<1> DEFINE B == global_allocated_blocks
<1>1. B \in Seq(Block) /\ Len(B) \in Nat /\ DOMAIN B = 1 .. Len(B)
  BY LenProperties DEF HeapOK
<1>2. PICK n \in 0 .. Len(B) :
        /\ After(point) = SubSeq(B, n + 1, Len(B))
        /\ point = head => n = 0
        /\ point # head => n > 0 /\ B[n].address = point
  BY PointFacts
<1>3. n = Len(B)
  <2> DEFINE L == Len(B)
             after == SubSeq(B, n + 1, L)
  <2>1. \A i \in n + 1 .. L : B[i] \in Block
    BY <1>1, <1>2, ElementOfSeq
  <2>2. L \in Nat /\ n \in 0 .. L
    BY <1>1, <1>2
  <2>3. after = <<>>
    BY <1>2
  <2> HIDE DEF L
  <2>4. Len(after) = IF n + 1 <= L THEN L - (n + 1) + 1 ELSE 0
    BY <2>1, <2>2, SubSeqProperties
  <2> HIDE DEF after
  <2>5. Len(after) = 0
    BY <2>3
  <2>6. n = L
    BY <2>2, <2>4, <2>5
  <2> QED BY <2>6 DEF L
<1>4. CASE point = head
  <2>1. DOMAIN B = {}
    BY <1>1, <1>2, <1>3, <1>4
  <2> QED BY <1>4, <2>1 DEF By
<1>5. CASE point # head
  <2>1. n \in DOMAIN B /\ B[n].address = point /\ \A k \in DOMAIN B : k <= n
    BY <1>1, <1>2, <1>3, <1>5
  <2> QED BY <1>5, <2>1 DEF By, OlderBy
<1> QED BY <1>4, <1>5

\* A set of numbers has a smallest element.
LEMMA Smallest ==
  ASSUME NEW T \in SUBSET Nat, T # {}
  PROVE  \E x \in T : \A y \in T : x <= y
<1> DEFINE R == OpToRel(<, Nat)
<1>1. IsWellFoundedOn(R, Nat)
  BY NatLessThanWellFounded, Zenon
<1>2. \A m, n \in Nat : <<m, n>> \in R <=> m < n
  BY DEF OpToRel
<1> HIDE DEF R
<1>3. PICK x \in T : \A y \in T : <<y, x>> \notin R
  BY <1>1, WFMin, Zenon
<1>4. \A y \in T : ~(y < x)
  BY <1>2, <1>3
<1> QED BY <1>4

\* free_allocated_blocks leaves the older blocks and, of the others, those from
\* the first damaged one on.
LEMMA FreedFacts ==
  ASSUME HeapOK, NEW point \in Points, point # NULL, ~Dangling(point),
         NEW new, new = Before(point) \o Freed(After(point))
  PROVE  /\ new \in Seq(Block) /\ Thinned(new, global_allocated_blocks)
         /\ \A i, j \in DOMAIN global_allocated_blocks :
              i <= j /\ global_allocated_blocks[j].address = point
              => \E k \in DOMAIN new : new[k] = global_allocated_blocks[i]
<1> DEFINE B == global_allocated_blocks
           L == Len(B)
<1>1. B \in Seq(Block) /\ L \in Nat /\ DOMAIN B = 1 .. L
  BY LenProperties DEF HeapOK
<1>2. \E n \in 0 .. L :
        /\ Before(point) = SubSeq(B, 1, n) /\ After(point) = SubSeq(B, n + 1, L)
        /\ point # head => n > 0 /\ B[n].address = point
  BY PointFacts
<1> HIDE DEF L
<1>13. PICK n \in 0 .. L :
      /\ Before(point) = SubSeq(B, 1, n) /\ After(point) = SubSeq(B, n + 1, L)
      /\ point # head => n > 0 /\ B[n].address = point
  BY <1>2
<1>3. /\ Before(point) \in Seq(Block) /\ Len(Before(point)) = n
      /\ \A k \in 1 .. n : Before(point)[k] = B[k]
  <2>1. \A i \in 1 .. n : B[i] \in Block
    BY <1>1, <1>13, ElementOfSeq DEF L
  <2> QED BY <1>1, <1>13, <2>1, SubSeqProperties
<1>4. /\ After(point) \in Seq(Block) /\ Len(After(point)) = L - n
      /\ \A k \in 1 .. L - n : After(point)[k] = B[k + n]
  <2>1. \A i \in n + 1 .. L : B[i] \in Block
    BY <1>1, <1>13, ElementOfSeq DEF L
  <2> QED BY <1>1, <1>13, <2>1, SubSeqProperties
<1>5. \E d \in 1 .. L - n + 1 :
        /\ Freed(After(point)) \in Seq(Block) /\ Len(Freed(After(point))) = L - n - d + 1
        /\ \A k \in 1 .. L - n - d + 1 : Freed(After(point))[k] = B[k + (n + d - 1)]
  <2> DEFINE after == After(point)
             damaged == {i \in DOMAIN after : ~after[i].guarded}
  <2>0. DOMAIN after = 1 .. L - n /\ Len(after) = L - n
    BY <1>4, LenProperties
  <2>1. CASE damaged = {}
    <3> DEFINE e == L - n + 1
    <3>1. Freed(after) = <<>>
      BY <2>1 DEF Freed
    <3>2. <<>> \in Seq(Block) /\ Len(<<>>) = 0
      OBVIOUS
    <3>3. e \in 1 .. L - n + 1 /\ L - n - e + 1 = 0
      BY <1>1, <1>13, <1>2
    <3> HIDE DEF e, after
    <3>4. \A k \in 1 .. L - n - e + 1 : Freed(after)[k] = B[k + (n + e - 1)]
      BY <3>3
    <3> QED BY <3>1, <3>2, <3>3, <3>4 DEF after
  <2>2. CASE damaged # {}
    <3> DEFINE d == CHOOSE i \in damaged : \A j \in damaged : i <= j
    <3>1. d \in damaged
      <4>1. damaged \in SUBSET Nat
        BY <1>1, <1>13, <2>0
      <4>2. \E i \in damaged : \A j \in damaged : i <= j
        BY <2>2, <4>1, Smallest
      <4> QED BY <4>2
    <3>2. Freed(after) = SubSeq(after, d, Len(after))
      BY <2>2 DEF Freed
    <3>3. d \in 1 .. L - n
      BY <2>0, <3>1
    <3> HIDE DEF d, damaged, after
    <3>4. after \in Seq(Block) /\ Len(after) = L - n /\ \A k \in 1 .. L - n : after[k] = B[k + n]
      BY <1>4 DEF after
    <3>5. L - n \in Nat
      BY <1>1, <1>13, <1>2
    <3>6. \A i \in d .. L - n : after[i] \in Block
      BY <3>3, <3>4, <3>5, ElementOfSeq
    <3> DEFINE freed == SubSeq(after, d, L - n)
    <3>7. /\ freed \in Seq(Block)
          /\ Len(freed) = IF d <= L - n THEN L - n - d + 1 ELSE 0
          /\ \A k \in 1 .. L - n - d + 1 : freed[k] = after[d + k - 1]
      BY <3>3, <3>5, <3>6, SubSeqProperties
    <3> HIDE DEF freed
    <3>8. ASSUME NEW k \in 1 .. L - n - d + 1 PROVE freed[k] = B[k + (n + d - 1)]
      <4>1. d + k - 1 \in 1 .. L - n /\ d + k - 1 + n = k + (n + d - 1)
        BY <1>1, <1>13, <3>3
      <4> QED BY <3>4, <3>7, <4>1
    <3>9. Len(freed) = L - n - d + 1 /\ d \in 1 .. L - n + 1
      BY <1>1, <1>13, <3>3, <3>7
    <3>10. Freed(after) = freed
      BY <3>2, <3>4 DEF freed
    <3> QED BY <3>7, <3>8, <3>9, <3>10 DEF after
  <2> QED BY <2>1, <2>2
<1>6. PICK d \in 1 .. L - n + 1 :
        /\ Freed(After(point)) \in Seq(Block) /\ Len(Freed(After(point))) = L - n - d + 1
        /\ \A k \in 1 .. L - n - d + 1 : Freed(After(point))[k] = B[k + (n + d - 1)]
  BY <1>5
<1> DEFINE kept == Before(point)
           freed == Freed(After(point))
           f == [k \in 1 .. L - d + 1 |-> IF k <= n THEN k ELSE k + d - 1]
<1> HIDE DEF kept, freed
<1>7. /\ new \in Seq(Block) /\ Len(new) = L - d + 1
      /\ \A k \in 1 .. L - d + 1 : new[k] = IF k <= n THEN kept[k] ELSE freed[k - n]
  <2>1. kept \in Seq(Block) /\ freed \in Seq(Block) /\ new = kept \o freed
        /\ Len(kept) = n /\ Len(freed) = L - n - d + 1
    BY <1>3, <1>6 DEF kept, freed
  <2>2. /\ new \in Seq(Block) /\ Len(new) = Len(kept) + Len(freed)
        /\ \A k \in 1 .. Len(kept) + Len(freed) :
              new[k] = IF k <= Len(kept) THEN kept[k] ELSE freed[k - Len(kept)]
    BY <2>1, ConcatProperties
  <2>3. Len(kept) + Len(freed) = L - d + 1
    BY <1>1, <1>13, <1>6, <2>1
  <2> QED BY <2>1, <2>2, <2>3
<1>8. ASSUME NEW k \in 1 .. L - d + 1 PROVE f[k] \in 1 .. L /\ new[k] = B[f[k]]
  <2>1. CASE k <= n
    <3>1. f[k] = k /\ k \in 1 .. n /\ k \in 1 .. L
      BY <1>1, <1>13, <1>6, <2>1
    <3>2. kept[k] = B[k]
      BY <1>3, <3>1 DEF kept
    <3> QED BY <1>7, <2>1, <3>1, <3>2
  <2>2. CASE ~(k <= n)
    <3>0. L \in Nat /\ n \in 0 .. L /\ d \in 1 .. L - n + 1 /\ k \in 1 .. L - d + 1 /\ ~(k <= n)
      BY <1>1, <1>13, <1>6, <2>2
    <3>1. /\ k - n \in 1 .. L - n - d + 1 /\ k + d - 1 \in 1 .. L
          /\ k - n + (n + d - 1) = k + d - 1
      BY <3>0
    <3>3. f[k] = k + d - 1
      BY <3>0
    <3>2. freed[k - n] = B[k + d - 1]
      BY <1>6, <3>1 DEF freed
    <3> HIDE DEF f
    <3> QED BY <1>7, <2>2, <3>1, <3>2, <3>3
  <2> QED BY <2>1, <2>2
<1>9. \A i, j \in 1 .. L - d + 1 : i < j => f[i] < f[j]
  BY <1>1, <1>13, <1>6
<1> HIDE DEF f
<1>10. f \in [1 .. L - d + 1 -> 1 .. L]
  BY <1>8 DEF f
<1>11. ASSUME NEW i \in 1 .. L, NEW j \in 1 .. L, i <= j, B[j].address = point
       PROVE  \E k \in DOMAIN new : new[k] = B[i]
  <2>1. B[j] \in Block
    BY <1>1, <1>13, ElementOfSeq DEF L
  <2>2. point # head
    BY <1>11, <2>1 DEF Block, Addresses, head
  <2>3. n \in 1 .. L /\ B[n].address = point
    <3>1. n > 0 /\ B[n].address = point
      BY <1>13, <2>2
    <3>2. n \in 1 .. L
      BY <1>1, <1>13, <3>1
    <3> QED BY <3>1, <3>2
  <2>4. j = n
    BY <1>1, <1>13, <1>11, <2>3 DEF HeapOK, Distinct
  <2>5. i \in 1 .. n /\ i \in 1 .. L - d + 1 /\ i <= n
    BY <1>1, <1>13, <1>6, <1>11, <2>4
  <2>6. DOMAIN new = 1 .. L - d + 1
    BY <1>7, LenProperties
  <2>7. new[i] = B[i]
    BY <1>3, <1>7, <2>5 DEF kept
  <2> QED BY <2>5, <2>6, <2>7
<1>12. Thinned(new, B)
  BY <1>7, <1>8, <1>9, <1>10 DEF Thinned, L
<1> QED BY <1>1, <1>7, <1>11, <1>12

(***************************************************************************)
(* What the steps do to the heap.                                          *)
(***************************************************************************)
\* A checkpoint still divides the blocks as it did when it was taken: its block
\* is there and none of `by' is older; or it is lost for `who'.
Guarded(blocks, gone, who, by, point) ==
  \/ who \in gone
  \/ /\ point \in AddressesOf(blocks) \union {head}
     /\ by \notin OlderBy(blocks, point)

Precedes(blocks, older, point) ==
  \E i, j \in DOMAIN blocks : i <= j /\ blocks[i].address = older /\ blocks[j].address = point

\* One checkpoint is not behind another, as long as it is not lost.
Ordered(blocks, gone, who, older, point) ==
  \/ who \in gone \/ older \in {NULL, head}
  \/ /\ older \in AddressesOf(blocks) /\ point # head
     /\ point \in AddressesOf(blocks) => Precedes(blocks, older, point)

\* Both stay so if blocks are removed,
LEMMA ThinnedKeeps ==
  ASSUME NEW old \in Seq(Block), NEW new \in Seq(Block), Thinned(new, old), Distinct(old),
         NEW before, NEW gone, before \subseteq gone, NEW who, NEW point,
         point \in AddressesOf(old) => point \in AddressesOf(new) \/ who \in gone
  PROVE  /\ \A by : Guarded(old, before, who, by, point) => Guarded(new, gone, who, by, point)
         /\ \A other : Ordered(old, before, who, point, other) => Ordered(new, gone, who, point, other)
<1>1. /\ Distinct(new) /\ AddressesOf(new) \subseteq AddressesOf(old)
      /\ \A p : OlderBy(new, p) \subseteq OlderBy(old, p)
  BY ThinnedFacts
<1>2. \A by : Guarded(old, before, who, by, point) => Guarded(new, gone, who, by, point)
  BY <1>1 DEF Guarded
<1>3. ASSUME NEW other, other \in AddressesOf(new), point \in AddressesOf(new),
             Precedes(old, point, other)
      PROVE  Precedes(new, point, other)
  <2>1. PICK f \in [1 .. Len(new) -> 1 .. Len(old)] :
          /\ \A i, j \in 1 .. Len(new) : i < j => f[i] < f[j]
          /\ \A i \in 1 .. Len(new) : new[i] = old[f[i]]
    BY DEF Thinned
  <2>2. /\ DOMAIN new = 1 .. Len(new) /\ DOMAIN old = 1 .. Len(old)
        /\ Len(new) \in Nat /\ Len(old) \in Nat
    BY LenProperties
  <2>3. PICK i \in DOMAIN new, j \in DOMAIN new : new[i].address = point /\ new[j].address = other
    BY <1>3 DEF AddressesOf
  <2>4. PICK k \in DOMAIN old, l \in DOMAIN old :
          k <= l /\ old[k].address = point /\ old[l].address = other
    BY <1>3 DEF Precedes
  <2>5. /\ f[i] \in DOMAIN old /\ old[f[i]].address = point
        /\ f[j] \in DOMAIN old /\ old[f[j]].address = other
    BY <2>1, <2>2, <2>3
  <2>6. f[i] = k /\ f[j] = l
    BY <2>4, <2>5 DEF Distinct
  <2>7. i <= j
    <3>1. i \in Nat /\ j \in Nat /\ k \in Nat /\ l \in Nat
      BY <2>2, <2>3, <2>4
    <3>2. j < i => l < k
      BY <2>1, <2>2, <2>3, <2>6
    <3> QED BY <2>4, <3>1, <3>2
  <2> QED BY <2>3, <2>7 DEF Precedes
<1>4. ASSUME NEW other, Ordered(old, before, who, point, other)
      PROVE  Ordered(new, gone, who, point, other)
  <2>1. CASE who \in gone \/ point \in {NULL, head}
    BY <2>1 DEF Ordered
  <2>2. CASE who \notin gone /\ point \notin {NULL, head}
    <3>1. /\ point \in AddressesOf(old) /\ other # head
          /\ other \in AddressesOf(old) => Precedes(old, point, other)
      BY <1>4, <2>2 DEF Ordered
    <3>2. point \in AddressesOf(new)
      BY <2>2, <3>1
    <3> QED BY <1>1, <1>3, <3>1, <3>2 DEF Ordered
  <2> QED BY <2>1, <2>2
<1> QED BY <1>2, <1>4

\* and if one is added.
LEMMA AppendKeeps ==
  ASSUME NEW old \in Seq(Block), Distinct(old), NEW b \in Block, b.address \notin AddressesOf(old),
         NEW gone, NEW who, NEW point
  PROVE  /\ \A by : Guarded(old, gone, who, by, point) => Guarded(Append(old, b), gone, who, by, point)
         /\ \A other : Ordered(old, gone, who, point, other)
                        => Ordered(Append(old, b), gone, who, point, other)
<1> DEFINE new == Append(old, b)
<1>1. /\ AddressesOf(new) = AddressesOf(old) \union {b.address}
      /\ \A p : p # b.address => OlderBy(new, p) = OlderBy(old, p)
  BY AppendFacts
<1>2. b.address # head
  BY DEF Block, Addresses, head
<1>3. /\ Len(old) \in Nat /\ DOMAIN old = 1 .. Len(old) /\ DOMAIN new = 1 .. Len(old) + 1
      /\ new[Len(old) + 1] = b /\ \A i \in 1 .. Len(old) : new[i] = old[i]
  <2>1. Len(old) \in Nat /\ DOMAIN old = 1 .. Len(old)
    BY LenProperties
  <2>2. /\ new \in Seq(Block) /\ Len(new) = Len(old) + 1 /\ new[Len(old) + 1] = b
        /\ \A i \in 1 .. Len(old) : new[i] = old[i]
    BY AppendProperties
  <2>3. DOMAIN new = 1 .. Len(new)
    BY <2>2, LenProperties
  <2> QED BY <2>1, <2>2, <2>3
<1> HIDE DEF new
<1>4. ASSUME NEW by, Guarded(old, gone, who, by, point)
      PROVE  Guarded(new, gone, who, by, point)
  <2>1. CASE who \in gone
    BY <2>1 DEF Guarded
  <2>2. CASE who \notin gone
    <3>1. point \in AddressesOf(old) \union {head} /\ by \notin OlderBy(old, point)
      BY <1>4, <2>2 DEF Guarded
    <3>2. point # b.address
      BY <1>2, <3>1
    <3> QED BY <1>1, <3>1, <3>2 DEF Guarded
  <2> QED BY <2>1, <2>2
<1>5. ASSUME NEW other, Ordered(old, gone, who, point, other)
      PROVE  Ordered(new, gone, who, point, other)
  <2>1. CASE who \in gone \/ point \in {NULL, head}
    BY <2>1 DEF Ordered
  <2>2. CASE who \notin gone /\ point \notin {NULL, head}
    <3>1. /\ point \in AddressesOf(old) /\ other # head
          /\ other \in AddressesOf(old) => Precedes(old, point, other)
      BY <1>5, <2>2 DEF Ordered
    <3>2. CASE other \in AddressesOf(old)
      <4>1. PICK k \in 1 .. Len(old), l \in 1 .. Len(old) :
              k <= l /\ old[k].address = point /\ old[l].address = other
        BY <1>3, <3>1, <3>2 DEF Precedes
      <4>2. k \in DOMAIN new /\ l \in DOMAIN new /\ new[k] = old[k] /\ new[l] = old[l]
        BY <1>3
      <4>3. Precedes(new, point, other)
        BY <4>1, <4>2 DEF Precedes
      <4> QED BY <1>1, <3>1, <4>3 DEF Ordered
    <3>3. CASE other = b.address
      <4>1. PICK k \in 1 .. Len(old) : old[k].address = point
        BY <1>3, <3>1 DEF AddressesOf
      <4>2. /\ k \in DOMAIN new /\ new[k] = old[k] /\ k <= Len(old) + 1
            /\ Len(old) + 1 \in DOMAIN new
        BY <1>3
      <4>3. Precedes(new, point, other)
        BY <1>3, <3>3, <4>1, <4>2 DEF Precedes
      <4> QED BY <1>1, <3>1, <4>3 DEF Ordered
    <3>4. CASE other \notin AddressesOf(old) /\ other # b.address
      BY <1>1, <3>1, <3>4 DEF Ordered
    <3> QED BY <3>2, <3>3, <3>4
  <2> QED BY <2>1, <2>2
<1> QED BY <1>4, <1>5 DEF new

\* Blocks are removed and the variables that point to them cleared.
LEMMA HeapIsTyped ==
  ASSUME HeapOK, NEW new \in Seq(Block), Thinned(new, global_allocated_blocks), HeapIs(new)
  PROVE  HeapOK'
<1>1. Distinct(new)
  BY ThinnedFacts DEF HeapOK
<1>2. /\ global_allocated_blocks' = new
      /\ pointer' = [p \in Pointers |-> IF pointer[p] \in AddressesOf(new) THEN pointer[p] ELSE 0]
  BY DEF HeapIs, AddressesOf
<1> QED BY <1>1, <1>2 DEF HeapOK

\* What a call may do to the blocks, and to the checkpoints of the test it is
\* made in.
HeapKept ==
  LET old == global_allocated_blocks
      new == global_allocated_blocks'
      who == <<at, test>>
      answer == <<"teardown", test>>
  IN  /\ By(new) \subseteq By(old) \union {who} /\ lost \subseteq lost'
      /\ \A by : Guarded(old, lost, who, by, heap_check_point)
                 => Guarded(new, lost', who, by, heap_check_point)
      /\ \A by : Guarded(old, lost, answer, by, check_point)
                 => Guarded(new, lost', answer, by, check_point)
      /\ Ordered(old, lost, answer, check_point, heap_check_point)
           => Ordered(new, lost', answer, check_point, heap_check_point)

HeapSteps == HeapOK' /\ lost' \subseteq Places /\ HeapKept

\* What the calls that leave the heap alone do to it,
LEMMA HeapSame ==
  ASSUME TypeInv, UNCHANGED <<heap, lost>>
  PROVE  HeapSteps
BY DEF TypeInv, HeapSteps, HeapKept, HeapOK, FlagsOK, heap

\* malloc,
LEMMA NewBlockFacts ==
  ASSUME TypeInv, global_running_test, NEW address \in Addresses \ Allocated
  PROVE  /\ NewBlock(address) \in Block /\ NewBlock(address).address = address
         /\ NewBlock(address).by = <<at, test>>
         /\ address \notin AddressesOf(global_allocated_blocks)
<1>1. test \in Nat
  BY TestsOf DEF TypeInv, ProgramOK
<1>2. at \in Functions /\ <<at, test>> \in Functions \X Nat
  BY <1>1 DEF TypeInv, FlagsOK
<1> QED BY <1>2 DEF NewBlock, Block, Allocated, AddressesOf

LEMMA MallocHeap ==
  ASSUME TypeInv, global_running_test, NEW address \in Addresses \ Allocated,
         global_allocated_blocks' = Append(global_allocated_blocks, NewBlock(address)),
         pointer' = pointer \/ \E p \in Pointers : pointer' = [pointer EXCEPT ![p] = address],
         lost' = lost
  PROVE  HeapSteps
<1> DEFINE old == global_allocated_blocks
           new == global_allocated_blocks'
           b == NewBlock(address)
<1>1. /\ b \in Block /\ b.address = address /\ b.by = <<at, test>>
      /\ address \notin AddressesOf(old)
  BY NewBlockFacts
<1>2. old \in Seq(Block) /\ Distinct(old)
  BY DEF TypeInv, HeapOK
<1> HIDE DEF b
<1>3. /\ new \in Seq(Block) /\ Distinct(new)
      /\ AddressesOf(new) = AddressesOf(old) \union {address}
      /\ By(new) = By(old) \union {<<at, test>>}
  BY <1>1, <1>2, AppendFacts DEF b
<1>4. HeapOK'
  BY <1>3 DEF TypeInv, HeapOK
<1>5. \A who, point :
        /\ \A by : Guarded(old, lost, who, by, point) => Guarded(new, lost, who, by, point)
        /\ \A other : Ordered(old, lost, who, point, other) => Ordered(new, lost, who, point, other)
  BY <1>1, <1>2, AppendKeeps DEF b
<1>6. HeapKept
  BY <1>3, <1>5 DEF HeapKept
<1> QED BY <1>4, <1>6 DEF HeapSteps, TypeInv, FlagsOK

\* free,
LEMMA LosesFacts ==
  ASSUME TypeInv, global_running_test, NEW address, Loses(address)
  PROVE  /\ lost \subseteq lost' /\ lost' \subseteq Places
         /\ address = heap_check_point /\ address # head => <<at, test>> \in lost'
         /\ address = check_point /\ address # head => <<"teardown", test>> \in lost'
<1>1. <<at, test>> \in Places /\ <<"teardown", test>> \in Places /\ lost \subseteq Places
  BY DEF TypeInv, FlagsOK, ProgramOK, Places, Functions
<1> QED BY <1>1 DEF Loses

LEMMA ThinnedHeap ==
  ASSUME TypeInv, global_running_test, NEW address, NEW old \in Seq(Block), Distinct(old),
         NEW new, new = Without(old, address), Loses(address), NEW point, NEW who,
         address = point /\ address # head => who \in lost'
  PROVE  /\ \A by : Guarded(old, lost, who, by, point) => Guarded(new, lost', who, by, point)
         /\ \A other : Ordered(old, lost, who, point, other) => Ordered(new, lost', who, point, other)
<1>1. new \in Seq(Block) /\ Thinned(new, old) /\ AddressesOf(new) = AddressesOf(old) \ {address}
  BY WithoutFacts
<1>2. head \notin AddressesOf(old)
  <2>1. \A i \in DOMAIN old : old[i] \in Block
    BY LenProperties, ElementOfSeq
  <2> QED BY <2>1 DEF AddressesOf, Block, Addresses, head
<1>3. point \in AddressesOf(old) => point \in AddressesOf(new) \/ who \in lost'
  BY <1>1, <1>2
<1>4. lost \subseteq lost'
  BY LosesFacts
<1> QED BY <1>1, <1>3, <1>4, ThinnedKeeps

LEMMA FreeHeap ==
  ASSUME TypeInv, global_running_test, NEW address,
         HeapIs(Without(global_allocated_blocks, address)), Loses(address)
  PROVE  HeapSteps
<1> DEFINE old == global_allocated_blocks
           new == Without(old, address)
<1>1. old \in Seq(Block) /\ Distinct(old)
  BY DEF TypeInv, HeapOK
<1>2. new \in Seq(Block) /\ Thinned(new, old) /\ AddressesOf(new) = AddressesOf(old) \ {address}
  BY <1>1, WithoutFacts
<1> HIDE DEF new
<1>3. HeapOK'
  BY <1>2, HeapIsTyped DEF TypeInv, new
<1>4. global_allocated_blocks' = new /\ By(new) \subseteq By(old)
  BY <1>1, <1>2, ThinnedFacts DEF HeapIs, new
<1>5. /\ lost \subseteq lost' /\ lost' \subseteq Places
      /\ address = heap_check_point /\ address # head => <<at, test>> \in lost'
      /\ address = check_point /\ address # head => <<"teardown", test>> \in lost'
  BY LosesFacts
<1>6. \A by : Guarded(old, lost, <<at, test>>, by, heap_check_point)
              => Guarded(new, lost', <<at, test>>, by, heap_check_point)
  BY <1>1, <1>5, ThinnedHeap DEF new
<1>7. /\ \A by : Guarded(old, lost, <<"teardown", test>>, by, check_point)
                 => Guarded(new, lost', <<"teardown", test>>, by, check_point)
      /\ \A other : Ordered(old, lost, <<"teardown", test>>, check_point, other)
                    => Ordered(new, lost', <<"teardown", test>>, check_point, other)
  BY <1>1, <1>5, ThinnedHeap DEF new
<1>8. HeapKept
  BY <1>4, <1>5, <1>6, <1>7 DEF HeapKept
<1> QED BY <1>3, <1>5, <1>8 DEF HeapSteps

\* realloc,
LEMMA ReallocHeap ==
  ASSUME TypeInv, global_running_test, NEW p \in Pointers, NEW address \in Addresses \ Allocated,
         global_allocated_blocks' =
           Without(Append(global_allocated_blocks, NewBlock(address)), pointer[p]),
         pointer' = [q \in Pointers |-> IF q = p THEN address
                                        ELSE IF pointer[q] = pointer[p] THEN 0 ELSE pointer[q]],
         Loses(pointer[p])
  PROVE  HeapSteps
<1> DEFINE old == global_allocated_blocks
           both == Append(old, NewBlock(address))
           new == Without(both, pointer[p])
<1>1. /\ NewBlock(address) \in Block /\ NewBlock(address).address = address
      /\ NewBlock(address).by = <<at, test>> /\ address \notin AddressesOf(old)
  BY NewBlockFacts
<1>2. old \in Seq(Block) /\ Distinct(old)
  BY DEF TypeInv, HeapOK
<1>3. /\ both \in Seq(Block) /\ Distinct(both)
      /\ AddressesOf(both) = AddressesOf(old) \union {address}
      /\ By(both) = By(old) \union {<<at, test>>}
  BY <1>1, <1>2, AppendFacts
<1>4. \A who, point :
        /\ \A by : Guarded(old, lost, who, by, point) => Guarded(both, lost, who, by, point)
        /\ \A other : Ordered(old, lost, who, point, other) => Ordered(both, lost, who, point, other)
  BY <1>1, <1>2, AppendKeeps
<1> HIDE DEF both
<1>5. new \in Seq(Block) /\ Thinned(new, both) /\ AddressesOf(new) = AddressesOf(both) \ {pointer[p]}
  BY <1>3, WithoutFacts
<1>6. global_allocated_blocks' = new
  BY DEF both
<1>7. /\ lost \subseteq lost' /\ lost' \subseteq Places
      /\ pointer[p] = heap_check_point /\ pointer[p] # head => <<at, test>> \in lost'
      /\ pointer[p] = check_point /\ pointer[p] # head => <<"teardown", test>> \in lost'
  BY LosesFacts
<1>8. /\ \A by : Guarded(both, lost, <<at, test>>, by, heap_check_point)
                 => Guarded(new, lost', <<at, test>>, by, heap_check_point)
  BY <1>3, <1>7, ThinnedHeap
<1>9. /\ \A by : Guarded(both, lost, <<"teardown", test>>, by, check_point)
                 => Guarded(new, lost', <<"teardown", test>>, by, check_point)
      /\ \A other : Ordered(both, lost, <<"teardown", test>>, check_point, other)
                    => Ordered(new, lost', <<"teardown", test>>, check_point, other)
  BY <1>3, <1>7, ThinnedHeap
<1> HIDE DEF new
<1>10. Distinct(new) /\ By(new) \subseteq By(old) \union {<<at, test>>}
  BY <1>3, <1>5, ThinnedFacts
<1>11. ASSUME NEW q \in Pointers PROVE pointer'[q] \in {0} \union AddressesOf(new)
  <2>1. pointer[p] \in {0} \union AddressesOf(old) /\ pointer[q] \in {0} \union AddressesOf(old)
    BY DEF TypeInv, HeapOK
  <2>2. address # 0
    BY DEF Addresses
  <2>3. address # pointer[p]
    BY <1>1, <2>1, <2>2
  <2> QED BY <1>3, <1>5, <2>1, <2>3
<1>12. HeapOK'
  BY <1>5, <1>6, <1>10, <1>11 DEF HeapOK
<1>13. HeapKept
  BY <1>4, <1>6, <1>7, <1>8, <1>9, <1>10 DEF HeapKept
<1> QED BY <1>7, <1>12, <1>13 DEF HeapSteps

\* and a write behind the end of a block.
LEMMA OverrunHeap ==
  ASSUME TypeInv, NEW m \in DOMAIN global_allocated_blocks,
         global_allocated_blocks' = [global_allocated_blocks EXCEPT ![m].guarded = FALSE],
         UNCHANGED <<pointer, lost>>
  PROVE  HeapSteps
<1> DEFINE old == global_allocated_blocks
           new == global_allocated_blocks'
<1>1. old \in Seq(Block) /\ Distinct(old)
  BY DEF TypeInv, HeapOK
<1>2. /\ new \in Seq(Block) /\ Distinct(new) /\ AddressesOf(new) = AddressesOf(old)
      /\ By(new) = By(old) /\ \A point : OlderBy(new, point) = OlderBy(old, point)
  BY <1>1, DamagedFacts
<1>3. \A older, point : Precedes(old, older, point) => Precedes(new, older, point)
  <2>1. DOMAIN new = DOMAIN old /\ \A i \in DOMAIN old : new[i].address = old[i].address
    BY <1>1
  <2> QED BY <2>1 DEF Precedes
<1>4. HeapOK'
  BY <1>2 DEF TypeInv, HeapOK
<1>5. /\ \A who, by, point : Guarded(old, lost, who, by, point) => Guarded(new, lost, who, by, point)
      /\ \A who, older, point :
            Ordered(old, lost, who, older, point) => Ordered(new, lost, who, older, point)
  BY <1>2, <1>3 DEF Guarded, Ordered
<1>6. HeapKept
  BY <1>2, <1>5 DEF HeapKept
<1> QED BY <1>4, <1>6 DEF HeapSteps, TypeInv, FlagsOK

\* What the runner does to it when a function leaves blocks behind: those of its
\* setup's checkpoint stay.
LEMMA FreedHeap ==
  ASSUME TypeInv, heap_check_point # NULL, ~Dangling(heap_check_point), lost' = lost,
         HeapIs(Before(heap_check_point) \o Freed(After(heap_check_point)))
  PROVE  /\ HeapOK' /\ By(global_allocated_blocks') \subseteq By(global_allocated_blocks)
         /\ Ordered(global_allocated_blocks, lost, <<"teardown", test>>, check_point, heap_check_point)
              => \A by : Guarded(global_allocated_blocks, lost, <<"teardown", test>>, by, check_point)
                         => Guarded(global_allocated_blocks', lost', <<"teardown", test>>, by, check_point)
<1> DEFINE old == global_allocated_blocks
           new == Before(heap_check_point) \o Freed(After(heap_check_point))
           answer == <<"teardown", test>>
<1>1. old \in Seq(Block) /\ Distinct(old) /\ HeapOK /\ heap_check_point \in Points
  BY DEF TypeInv, HeapOK, FlagsOK
<1>0. new = Before(heap_check_point) \o Freed(After(heap_check_point))
  OBVIOUS
<1> HIDE DEF new
<1>2. /\ new \in Seq(Block) /\ Thinned(new, old)
      /\ \A i, j \in DOMAIN old : i <= j /\ old[j].address = heap_check_point
                                => \E k \in DOMAIN new : new[k] = old[i]
  <2> DEFINE point == heap_check_point
  <2>1. HeapOK /\ point \in Points /\ point # NULL /\ ~Dangling(point)
    BY <1>1
  <2> HIDE DEF point
  <2>2. \A n : n = Before(point) \o Freed(After(point)) =>
          /\ n \in Seq(Block) /\ Thinned(n, global_allocated_blocks)
          /\ \A i, j \in DOMAIN global_allocated_blocks :
               i <= j /\ global_allocated_blocks[j].address = point
               => \E k \in DOMAIN n : n[k] = global_allocated_blocks[i]
    BY <2>1, FreedFacts
  <2> QED BY <1>0, <2>2 DEF point
<1>3. HeapOK' /\ global_allocated_blocks' = new
  BY <1>1, <1>2, HeapIsTyped DEF HeapIs, new
<1>4. By(new) \subseteq By(old)
  BY <1>1, <1>2, ThinnedFacts
<1>5. ASSUME Ordered(old, lost, answer, check_point, heap_check_point), check_point \in AddressesOf(old)
      PROVE  check_point \in AddressesOf(new) \/ answer \in lost
  <2>1. CASE answer \in lost
    BY <2>1
  <2>2. CASE answer \notin lost
    <3>1. check_point \notin {NULL, head}
      <4>1. \A i \in DOMAIN old : old[i] \in Block
        BY <1>1, LenProperties, ElementOfSeq
      <4> QED BY <1>5, <4>1 DEF AddressesOf, Block, Addresses, NULL, head
    <3>2. heap_check_point # head /\ heap_check_point \in AddressesOf(old)
      BY <1>5, <2>2, <3>1 DEF Ordered, Dangling, Allocated, AddressesOf
    <3>3. PICK i \in DOMAIN old, j \in DOMAIN old :
            i <= j /\ old[i].address = check_point /\ old[j].address = heap_check_point
      BY <1>5, <2>2, <3>1, <3>2 DEF Ordered, Precedes
    <3> QED BY <1>2, <3>3 DEF AddressesOf
  <2> QED BY <2>1, <2>2
<1>6. ASSUME Ordered(old, lost, answer, check_point, heap_check_point)
      PROVE  \A by : Guarded(old, lost, answer, by, check_point) => Guarded(new, lost, answer, by, check_point)
  BY <1>1, <1>2, <1>5, <1>6, ThinnedKeeps
<1> QED BY <1>3, <1>4, <1>6

(***************************************************************************)
(* The calls.                                                              *)
(***************************************************************************)
Continues == UNCHANGED <<suite, runner, global_running_test, global_skip_test, skipped>>

Stops == Leave(-1, global_skip_test) /\ skipped' = skipped

Skips == Leave(-1, TRUE) /\ skipped' = skipped \union {<<at, test>>}

Dies == /\ at' = "ended" /\ ~global_running_test'
        /\ UNCHANGED <<suite, test, status, global_skip_test, skipped>>

\* What a call does to the function that makes it.
CallStep ==
  /\ global_running_test /\ HeapSteps /\ TypeInv'
  /\ Continues \/ Stops \/ Skips \/ Dies

\* Calls are made while a function runs, and are well formed.
LEMMA CallFacts ==
  ASSUME CallsWellFormed, TypeInv, NEW name, NEW op \in Call(name)
  PROVE  global_running_test /\ op.call = name /\ WellFormed(op)
<1>1. global_running_test /\ op \in Calls(name)
  BY DEF Call
<1>2. op \in MayCall(Function, done) /\ op.call = name
  BY <1>1 DEF Calls
<1>3. IsSequence(done) /\ suite \in Suites
  BY DEF TypeInv, FlagsOK, ProgramOK
<1>4. Function \in Names(suite)
  BY <1>1 DEF TypeInv, FlagsOK, ProgramOK, Function, Names, Functions
<1> QED BY <1>1, <1>2, <1>3, <1>4 DEF CallsWellFormed

LEMMA GoesStep ==
  ASSUME TypeInv, global_running_test, NEW op, Goes(op), HeapSteps, ListsOK' \/ UNCHANGED maps
  PROVE  CallStep
<1>1. global_running_test' = global_running_test /\ Continues
  BY DEF Goes, Continues
<1>2. ListsOK'
  BY <1>1 DEF TypeInv, ListsOK, maps
<1> QED BY <1>1, <1>2, GoesTyped DEF CallStep, HeapSteps

LEMMA FailsStep ==
  ASSUME TypeInv, global_running_test, NEW op, Fails(op), HeapSteps, UNCHANGED lost
  PROVE  CallStep
<1>1. Stops
  BY DEF Fails, exit_test, Stops
<1> QED BY <1>1, FailsTyped DEF CallStep, HeapSteps

\* A value declared for a symbol,
LEMMA ValueAdded ==
  ASSUME NEW S, NEW map, DOMAIN map = S, \A s \in S : IsList(map[s]),
         NEW symbol \in S, NEW value, NEW count \in Counts,
         NEW new, new = add_symbol_value(map, symbol, value, count)
  PROVE  DOMAIN new = S /\ \A s \in S : IsList(new[s])
<1>1. IsList(list_add_value(map[symbol], value, count))
  BY ListAdded
<1>2. new = [map EXCEPT ![symbol] = list_add_value(map[symbol], value, count)]
  BY DEF add_symbol_value
<1> QED BY <1>1, <1>2

\* and the next one of it taken.
LEMMA ValueTaken ==
  ASSUME NEW S, NEW map, DOMAIN map = S, \A s \in S : IsList(map[s]),
         NEW symbol \in S, NEW next, next = get_symbol_value(map, symbol), next.found
  PROVE  DOMAIN next.map = S /\ \A s \in S : IsList(next.map[s])
<1>1. map[symbol] # <<>> /\ next.map = [map EXCEPT ![symbol] = Used(map[symbol], 1)]
  BY DEF get_symbol_value
<1>2. 1 \in DOMAIN map[symbol]
  <2>1. PICK T : map[symbol] \in Seq(T)
    BY DEF IsList, IsSequence
  <2> QED BY <1>1, <2>1, EmptySeq, LenProperties
<1>3. IsList(Used(map[symbol], 1))
  BY <1>2, ListUsed
<1> QED BY <1>1, <1>3

\* The calls that use the lists.
LEMMA ListCalls ==
  ASSUME CallsWellFormed, TypeInv,
         \/ _will_return \/ _mock \/ _expect_check \/ _check_expected
         \/ _expect_function_call \/ _function_called
  PROVE  CallStep
<1>1. ListsOK
  BY DEF TypeInv
<1>2. CASE _will_return
  <2>1. PICK op \in Call("will_return") :
          /\ UNCHANGED <<heap, lost>>
          /\ IF op.count # 0
             THEN /\ global_function_result_map' =
                       add_symbol_value(global_function_result_map, op.function, op.value, op.count)
                  /\ UNCHANGED <<global_function_parameter_map, global_call_ordering>>
                  /\ Goes(op)
             ELSE Fails(op)
    BY <1>2 DEF _will_return
  <2>2. global_running_test /\ HeapSteps /\ op.function \in Symbols /\ op.count \in Counts
    BY <2>1, CallFacts, HeapSame DEF WellFormed, Counts
  <2>3. CASE op.count = 0
    BY <2>1, <2>2, <2>3, FailsStep
  <2>4. CASE op.count # 0
    <3>1. /\ DOMAIN global_function_result_map' = Symbols
          /\ \A s \in Symbols : IsList(global_function_result_map'[s])
      BY <1>1, <2>1, <2>2, <2>4, ValueAdded DEF ListsOK
    <3>2. Goes(op) /\ UNCHANGED <<global_function_parameter_map, global_call_ordering>>
      BY <2>1, <2>4
    <3>3. ListsOK'
      BY <1>1, <2>2, <3>1, <3>2 DEF ListsOK, Goes
    <3> QED BY <2>2, <3>2, <3>3, GoesStep
  <2> QED BY <2>3, <2>4
<1>3. CASE _mock
  <2>1. PICK op \in Call("mock") :
          LET next == get_symbol_value(global_function_result_map, op.function) IN
          /\ UNCHANGED <<heap, lost>>
          /\ IF next.found /\ Holds(op.check, next.value)
             THEN /\ global_function_result_map' = next.map
                  /\ UNCHANGED <<global_function_parameter_map, global_call_ordering>>
                  /\ Goes(op)
             ELSE Fails(op)
    BY <1>3 DEF _mock
  <2> DEFINE next == get_symbol_value(global_function_result_map, op.function)
             meets == next.found /\ Holds(op.check, next.value)
  <2>2. global_running_test /\ HeapSteps /\ op.function \in Symbols
    BY <2>1, CallFacts, HeapSame DEF WellFormed
  <2>3. CASE ~meets
    BY <2>1, <2>2, <2>3, FailsStep
  <2>4. CASE meets
    <3>1. /\ global_function_result_map' = next.map
          /\ Goes(op) /\ UNCHANGED <<global_function_parameter_map, global_call_ordering>>
      BY <2>1, <2>4
    <3>2. DOMAIN next.map = Symbols /\ \A s \in Symbols : IsList(next.map[s])
      BY <1>1, <2>2, <2>4, ValueTaken DEF ListsOK
    <3> HIDE DEF next
    <3>3. ListsOK'
      BY <1>1, <2>2, <3>1, <3>2 DEF ListsOK, Goes
    <3> QED BY <2>2, <3>1, <3>3, GoesStep
  <2> QED BY <2>3, <2>4
<1>4. CASE _expect_check
  <2>1. PICK op \in Call("expect_check") :
          /\ global_function_parameter_map' =
               add_symbol_value(global_function_parameter_map, op.parameter, op.check, op.count)
          /\ Goes(op)
          /\ UNCHANGED <<global_function_result_map, global_call_ordering, heap, lost>>
    BY <1>4 DEF _expect_check
  <2>2. global_running_test /\ HeapSteps /\ op.parameter \in Parameters /\ op.count \in Counts
    BY <2>1, CallFacts, HeapSame DEF WellFormed, Counts
  <2>3. /\ DOMAIN global_function_parameter_map' = Parameters
        /\ \A p \in Parameters : IsList(global_function_parameter_map'[p])
    BY <1>1, <2>1, <2>2, ValueAdded DEF ListsOK
  <2>4. ListsOK'
    BY <1>1, <2>1, <2>2, <2>3 DEF ListsOK, Goes
  <2> QED BY <2>1, <2>2, <2>4, GoesStep
<1>5. CASE _check_expected
  <2>1. PICK op \in Call("check_expected") :
          LET next == get_symbol_value(global_function_parameter_map, op.parameter) IN
          /\ UNCHANGED <<heap, lost>>
          /\ IF next.found /\ Holds(next.value, op.value)
             THEN /\ global_function_parameter_map' = next.map
                  /\ UNCHANGED <<global_function_result_map, global_call_ordering>>
                  /\ Goes(op)
             ELSE Fails(op)
    BY <1>5 DEF _check_expected
  <2> DEFINE next == get_symbol_value(global_function_parameter_map, op.parameter)
             meets == next.found /\ Holds(next.value, op.value)
  <2>2. global_running_test /\ HeapSteps /\ op.parameter \in Parameters
    BY <2>1, CallFacts, HeapSame DEF WellFormed
  <2>3. CASE ~meets
    BY <2>1, <2>2, <2>3, FailsStep
  <2>4. CASE meets
    <3>1. /\ global_function_parameter_map' = next.map
          /\ Goes(op) /\ UNCHANGED <<global_function_result_map, global_call_ordering>>
      BY <2>1, <2>4
    <3>2. DOMAIN next.map = Parameters /\ \A p \in Parameters : IsList(next.map[p])
      BY <1>1, <2>2, <2>4, ValueTaken DEF ListsOK
    <3> HIDE DEF next
    <3>3. ListsOK'
      BY <1>1, <2>2, <3>1, <3>2 DEF ListsOK, Goes
    <3> QED BY <2>2, <3>1, <3>3, GoesStep
  <2> QED BY <2>3, <2>4
<1>6. CASE _expect_function_call
  <2>1. PICK op \in Call("expect_function_call") :
          /\ UNCHANGED <<heap, lost>>
          /\ IF op.count # 0
             THEN /\ global_call_ordering' =
                       list_add_value(global_call_ordering, op.function, op.count)
                  /\ UNCHANGED <<global_function_result_map, global_function_parameter_map>>
                  /\ Goes(op)
             ELSE Fails(op)
    BY <1>6 DEF _expect_function_call
  <2>2. global_running_test /\ HeapSteps /\ op.count \in Counts
    BY <2>1, CallFacts, HeapSame DEF WellFormed, Counts
  <2>3. CASE op.count = 0
    BY <2>1, <2>2, <2>3, FailsStep
  <2>4. CASE op.count # 0
    <3>1. IsList(list_add_value(global_call_ordering, op.function, op.count))
      BY <1>1, <2>2, ListAdded DEF ListsOK
    <3>2. /\ global_call_ordering' = list_add_value(global_call_ordering, op.function, op.count)
          /\ Goes(op) /\ UNCHANGED <<global_function_result_map, global_function_parameter_map>>
      BY <2>1, <2>4
    <3>3. ListsOK'
      BY <1>1, <2>2, <3>1, <3>2 DEF ListsOK, Goes
    <3> QED BY <2>2, <3>2, <3>3, GoesStep
  <2> QED BY <2>3, <2>4
<1>7. CASE _function_called
  <2>1. PICK op \in Call("function_called") :
          /\ UNCHANGED <<heap, lost>>
          /\ \/ \E i \in Expected(global_call_ordering, op.function) :
                  /\ global_call_ordering' = Used(global_call_ordering, i)
                  /\ UNCHANGED <<global_function_result_map, global_function_parameter_map>>
                  /\ Goes(op)
             \/ Expected(global_call_ordering, op.function) = {} /\ Fails(op)
    BY <1>7 DEF _function_called
  <2>2. global_running_test /\ HeapSteps
    BY <2>1, CallFacts, HeapSame
  <2>3. CASE Fails(op)
    BY <2>1, <2>2, <2>3, FailsStep
  <2>4. ASSUME NEW i \in Expected(global_call_ordering, op.function),
               global_call_ordering' = Used(global_call_ordering, i),
               UNCHANGED <<global_function_result_map, global_function_parameter_map>>, Goes(op)
        PROVE  CallStep
    <3>1. i \in DOMAIN global_call_ordering
      BY <2>4 DEF Expected
    <3>2. IsList(Used(global_call_ordering, i))
      BY <1>1, <3>1, ListUsed DEF ListsOK
    <3>3. ListsOK'
      BY <1>1, <2>2, <2>4, <3>2 DEF ListsOK, Goes
    <3> QED BY <2>2, <2>4, <3>3, GoesStep
  <2> QED BY <2>1, <2>3, <2>4
<1> QED BY <1>2, <1>3, <1>4, <1>5, <1>6, <1>7

\* Those that only check, fail or jump.
LEMMA PlainCalls ==
  ASSUME CallsWellFormed, TypeInv,
         \/ _assert \/ _fail \/ exception_handler \/ _skip
         \/ expect_assert_failure \/ mock_assert
  PROVE  CallStep
<1>1. ASSUME NEW name, NEW op \in Call(name), UNCHANGED <<heap, lost>>
      PROVE  global_running_test /\ WellFormed(op) /\ op.call = name /\ HeapSteps
  BY <1>1, CallFacts, HeapSame
<1>2. CASE _assert
  <2>1. PICK op \in Call("assert") :
          /\ UNCHANGED <<heap, lost>>
          /\ IF Holds(op.check, op.value) THEN Goes(op) /\ UNCHANGED maps ELSE Fails(op)
    BY <1>2 DEF _assert
  <2> QED BY <1>1, <2>1, GoesStep, FailsStep
<1>3. CASE _fail \/ exception_handler
  <2>1. PICK op \in Call("fail") \union Call("exception") : Fails(op) /\ UNCHANGED <<heap, lost>>
    BY <1>3 DEF _fail, exception_handler
  <2> QED BY <1>1, <2>1, FailsStep
<1>4. CASE _skip
  <2>1. PICK op \in Call("skip") :
          /\ done' = Append(done, op) /\ Leave(-1, TRUE)
          /\ skipped' = skipped \union {<<at, test>>}
          /\ UNCHANGED <<global_expecting_assert, heap, lost>>
    BY <1>4 DEF _skip, exit_test
  <2>2. global_running_test /\ HeapSteps
    BY <1>1, <2>1
  <2>3. IsSequence(done') /\ skipped' \subseteq Places
    BY <2>1, <2>2, SequenceFacts DEF TypeInv, FlagsOK, ProgramOK, Places
  <2>4. TypeInv'
    BY <2>1, <2>2, <2>3, LeaveTyped DEF TypeInv, FlagsOK, HeapSteps
  <2> QED BY <2>1, <2>2, <2>4 DEF CallStep, Skips
<1>5. CASE expect_assert_failure
  <2>1. PICK op \in Call("expect_assert_failure") :
          /\ done' = Append(done, op)
          /\ global_expecting_assert' = (op.outcome = "fails")
          /\ IF op.outcome = "asserts"
             THEN UNCHANGED <<suite, runner, global_running_test, global_skip_test, maps>>
             ELSE exit_test(global_skip_test)
          /\ UNCHANGED <<heap, skipped, lost>>
    BY <1>5 DEF expect_assert_failure
  <2>2. global_running_test /\ HeapSteps
    BY <1>1, <2>1
  <2>3. IsSequence(done') /\ global_expecting_assert' \in BOOLEAN
    BY <2>1, SequenceFacts DEF TypeInv, FlagsOK
  <2>4. CASE op.outcome = "asserts"
    <3>1. Continues /\ UNCHANGED <<maps, lost>>
      BY <2>1, <2>4 DEF Continues
    <3>2. TypeInv'
      BY <2>2, <2>3, <3>1 DEF Continues, TypeInv, ProgramOK, FlagsOK, ListsOK, HeapSteps, Places,
                              Function, runner, maps
    <3> QED BY <2>2, <3>1, <3>2 DEF CallStep
  <2>5. CASE op.outcome # "asserts"
    <3>1. Leave(-1, global_skip_test) /\ UNCHANGED <<skipped, lost>>
      BY <2>1, <2>5 DEF exit_test
    <3>2. TypeInv'
      BY <2>2, <2>3, <3>1, LeaveTyped DEF TypeInv, FlagsOK, HeapSteps
    <3> QED BY <2>2, <3>1, <3>2 DEF CallStep, Stops
  <2> QED BY <2>4, <2>5
<1>6. CASE mock_assert
  <2>1. PICK op \in Call("mock_assert") :
          /\ UNCHANGED <<heap, lost>>
          /\ \/ op.result /\ Goes(op) /\ UNCHANGED maps
             \/ ~op.result /\ Fails(op)
             \/ /\ ~op.result /\ global_expecting_assert
                /\ at' = "ended" /\ code' = KILLED
                /\ done' = <<>> /\ global_running_test' = FALSE
                /\ NoMaps
                /\ UNCHANGED <<suite, test, heap_check_point, check_point, global_skip_test,
                               global_expecting_assert, skipped, status, group_error>>
    BY <1>6 DEF mock_assert
  <2>2. global_running_test /\ HeapSteps
    BY <1>1, <2>1
  <2>3. CASE Goes(op) /\ UNCHANGED maps
    BY <2>2, <2>3, GoesStep
  <2>4. CASE Fails(op)
    BY <2>1, <2>2, <2>4, FailsStep
  <2>5. CASE /\ at' = "ended" /\ code' = KILLED
             /\ done' = <<>> /\ global_running_test' = FALSE
             /\ NoMaps
             /\ UNCHANGED <<suite, test, heap_check_point, check_point, global_skip_test,
                            global_expecting_assert, skipped, status, group_error>>
    <3>1. ListsOK'
      BY <2>5, NoValues DEF NoMaps, ListsOK
    <3>2. IsSequence(done')
      BY <2>5, EmptySeq DEF IsSequence
    <3>3. ProgramOK' /\ FlagsOK'
      BY <2>1, <2>5, <3>2 DEF TypeInv, ProgramOK, FlagsOK, Places
    <3> QED BY <2>2, <2>5, <3>1, <3>3 DEF CallStep, Dies, TypeInv, HeapSteps
  <2> QED BY <2>1, <2>3, <2>4, <2>5
<1> QED BY <1>2, <1>3, <1>4, <1>5, <1>6

\* Those that allocate, free and write.
LEMMA HeapCallsStep ==
  ASSUME CallsWellFormed, TypeInv,
         _test_malloc \/ _test_free \/ _test_realloc_set0 \/ _test_realloc \/ Overrun
  PROVE  CallStep
<1>1. CASE _test_malloc
  <2>1. PICK op \in Call("malloc"), address \in Addresses \ Allocated :
          /\ global_allocated_blocks' = Append(global_allocated_blocks, NewBlock(address))
          /\ pointer' = [pointer EXCEPT ![op.pointer] = address]
          /\ Goes(op) /\ UNCHANGED <<maps, lost>>
    BY <1>1 DEF _test_malloc
  <2>2. global_running_test /\ op.pointer \in Pointers
    BY CallFacts DEF WellFormed
  <2>3. HeapSteps
    BY <2>1, <2>2, MallocHeap
  <2> QED BY <2>1, <2>2, <2>3, GoesStep
<1>2. ASSUME NEW op, global_running_test, Frees(op)
      PROVE  CallStep
  <2>1. CASE Intact(pointer[op.pointer])
    <3>1. /\ HeapIs(Without(global_allocated_blocks, pointer[op.pointer]))
          /\ Loses(pointer[op.pointer]) /\ Goes(op) /\ UNCHANGED maps
      BY <1>2, <2>1 DEF Frees
    <3>2. HeapSteps
      BY <1>2, <3>1, FreeHeap
    <3> QED BY <1>2, <3>1, <3>2, GoesStep
  <2>2. CASE ~Intact(pointer[op.pointer])
    <3>1. Fails(op) /\ UNCHANGED <<heap, lost>>
      BY <1>2, <2>2 DEF Frees
    <3> QED BY <1>2, <3>1, HeapSame, FailsStep
  <2> QED BY <2>1, <2>2
<1>3. CASE _test_free
  <2>1. PICK op \in Call("free") : Frees(op)
    BY <1>3 DEF _test_free
  <2> QED BY <1>2, <2>1, CallFacts
<1>4. CASE _test_realloc_set0
  <2>1. PICK op \in Call("realloc") : Frees(op)
    BY <1>4 DEF _test_realloc_set0
  <2> QED BY <1>2, <2>1, CallFacts
<1>5. CASE _test_realloc
  <2>1. PICK op \in Call("realloc"), address \in Addresses \ Allocated :
          LET old    == pointer[op.pointer]
              blocks == Append(global_allocated_blocks, NewBlock(address))
          IN  IF Intact(old)
              THEN /\ global_allocated_blocks' = Without(blocks, old)
                   /\ pointer' = [p \in Pointers |->
                                    IF p = op.pointer THEN address
                                    ELSE IF pointer[p] = old THEN 0 ELSE pointer[p]]
                   /\ Loses(old)
                   /\ Goes(op) /\ UNCHANGED maps
              ELSE global_allocated_blocks' = blocks /\ UNCHANGED <<pointer, lost>> /\ Fails(op)
    BY <1>5 DEF _test_realloc
  <2>2. global_running_test /\ op.pointer \in Pointers
    BY CallFacts DEF WellFormed
  <2>3. CASE Intact(pointer[op.pointer])
    <3>1. Goes(op) /\ UNCHANGED maps
      BY <2>1, <2>3
    <3>2. HeapSteps
      BY <2>1, <2>2, <2>3, ReallocHeap
    <3> QED BY <2>2, <3>1, <3>2, GoesStep
  <2>4. CASE ~Intact(pointer[op.pointer])
    <3>1. /\ global_allocated_blocks' = Append(global_allocated_blocks, NewBlock(address))
          /\ UNCHANGED <<pointer, lost>> /\ Fails(op)
      BY <2>1, <2>4
    <3>2. HeapSteps
      BY <2>2, <3>1, MallocHeap
    <3> QED BY <2>2, <3>1, <3>2, FailsStep
  <2> QED BY <2>3, <2>4
<1>6. CASE Overrun
  <2>1. PICK op \in Call("overrun"), i \in DOMAIN global_allocated_blocks :
          /\ global_allocated_blocks' = [global_allocated_blocks EXCEPT ![i].guarded = FALSE]
          /\ Goes(op) /\ UNCHANGED <<maps, pointer, lost>>
    BY <1>6 DEF Overrun
  <2>2. global_running_test /\ HeapSteps
    BY <2>1, CallFacts, OverrunHeap
  <2> QED BY <2>1, <2>2, GoesStep
<1> QED BY <1>1, <1>3, <1>4, <1>5, <1>6

(***************************************************************************)
(* The steps of the runner.                                                *)
(***************************************************************************)
Calling ==
  \/ _will_return \/ _mock \/ _expect_check \/ _check_expected
  \/ _expect_function_call \/ _function_called
  \/ _assert \/ _fail \/ exception_handler \/ _skip
  \/ expect_assert_failure \/ mock_assert
  \/ _test_malloc \/ _test_free \/ _test_realloc_set0 \/ _test_realloc \/ Overrun

LEMMA CallingStep ==
  ASSUME CallsWellFormed, TypeInv, Calling
  PROVE  CallStep
BY ListCalls, PlainCalls, HeapCallsStep, Zenon DEF Calling

\* A function returns: blocks that are left over fail it, unless its checkpoint
\* dangles.
ReturnsWith(rc) ==
  /\ Leave(rc, global_skip_test) /\ UNCHANGED <<skipped, lost>>
  /\ \/ /\ UNCHANGED heap
        /\ Checked => Dangling(heap_check_point) \/ After(heap_check_point) = <<>> \/ rc # 0
     \/ /\ rc # 0 /\ Checked /\ ~Dangling(heap_check_point)
        /\ HeapIs(Before(heap_check_point) \o Freed(After(heap_check_point)))

LEMMA ReturnStep ==
  ASSUME TypeInv, Return
  PROVE  global_running_test /\ TypeInv' /\ \E rc : ReturnsWith(rc)
<1>1. global_running_test /\ UNCHANGED <<done, global_expecting_assert, skipped, lost>>
  BY DEF Return
<1>2. ASSUME NEW rc, ReturnsWith(rc) PROVE TypeInv'
  <2>1. HeapOK'
    <3>1. CASE UNCHANGED heap
      BY <3>1 DEF TypeInv, HeapOK, heap
    <3>2. CASE /\ ~Dangling(heap_check_point)
               /\ HeapIs(Before(heap_check_point) \o Freed(After(heap_check_point)))
      BY <1>1, <3>2, FreedHeap DEF TypeInv, FlagsOK
    <3> QED BY <1>2, <3>1, <3>2 DEF ReturnsWith
  <2> QED BY <1>1, <1>2, <2>1, LeaveTyped DEF ReturnsWith, TypeInv, FlagsOK
<1>3. \E rc : ReturnsWith(rc)
  <2>1. CASE fail_if_blocks_allocated
    <3>1. ReturnsWith(-1)
      BY <1>1, <2>1 DEF fail_if_blocks_allocated, exit_test, ReturnsWith
    <3> QED BY <3>1
  <2>2. CASE ReadsFreed
    <3>1. \E rc : Leave(rc, global_skip_test)
      BY <2>2 DEF ReadsFreed, exit_test, fail_if_leftover_values
    <3> QED BY <1>1, <2>2, <3>1 DEF ReadsFreed, ReturnsWith
  <2>3. CASE /\ Checked => ~Dangling(heap_check_point) /\ After(heap_check_point) = <<>>
             /\ \E op \in Calls("return") : fail_if_leftover_values(Result(op))
             /\ UNCHANGED heap
    <3>1. \E rc : Leave(rc, global_skip_test)
      BY <2>3 DEF fail_if_leftover_values
    <3> QED BY <1>1, <2>3, <3>1 DEF ReturnsWith
  <2> QED BY <2>1, <2>2, <2>3 DEF Return
<1> QED BY <1>1, <1>2, <1>3

\* There is no function to run.
LEMMA NoFunctionTyped ==
  ASSUME TypeInv, NoFunction
  PROVE  TypeInv' /\ ~global_running_test /\ at # "test"
<1>1. /\ at \in Functions /\ Function = None /\ Proceeds(0, global_skip_test) /\ done' = <<>>
      /\ UNCHANGED <<global_running_test, maps, heap, heap_check_point,
                     global_expecting_assert, skipped, lost>>
  BY DEF NoFunction
<1>2. ProgramOK' /\ global_skip_test' \in {global_skip_test, FALSE} /\ Places' = Places
  BY <1>1, ProceedsTyped DEF TypeInv, FlagsOK
<1>3. ~global_running_test
  BY <1>1 DEF TypeInv, FlagsOK
<1>4. IsSequence(done')
  BY <1>1, EmptySeq DEF IsSequence
<1>5. ListsOK' /\ HeapOK'
  BY <1>1 DEF TypeInv, ListsOK, HeapOK, maps, heap
<1>6. FlagsOK'
  BY <1>1, <1>2, <1>3, <1>4 DEF TypeInv, FlagsOK
<1>7. at # "test"
  <2> DEFINE T == [setup : STRING, test : STRING \ {None}, teardown : STRING]
  <2>1. suite.tests \in Seq(T) /\ test \in 1 .. Len(suite.tests)
    BY SuitesAssumption, TestsOf DEF TypeInv, ProgramOK
  <2>2. suite.tests[test] \in T
    BY <2>1, ElementOfSeq
  <2>3. suite.tests[test].test # None
    BY <2>2
  <2>4. at = "test" => Function = suite.tests[test].test
    BY DEF Function
  <2> QED BY <1>1, <2>3, <2>4
<1> QED BY <1>2, <1>3, <1>5, <1>6, <1>7 DEF TypeInv

\* A block's address is one a checkpoint can have.
LEMMA CheckPointTyped ==
  ASSUME HeapOK
  PROVE  /\ check_point_allocated_blocks \in AddressesOf(global_allocated_blocks) \union {head}
         /\ AddressesOf(global_allocated_blocks) \subseteq Addresses
         /\ global_allocated_blocks = <<>> => check_point_allocated_blocks = head
         /\ global_allocated_blocks # <<>> =>
              /\ Len(global_allocated_blocks) \in DOMAIN global_allocated_blocks
              /\ check_point_allocated_blocks =
                   global_allocated_blocks[Len(global_allocated_blocks)].address
<1> DEFINE B == global_allocated_blocks
<1>1. B \in Seq(Block) /\ Len(B) \in Nat /\ DOMAIN B = 1 .. Len(B)
  BY LenProperties DEF HeapOK
<1>2. AddressesOf(B) \subseteq Addresses
  <2>1. \A i \in DOMAIN B : B[i] \in Block
    BY <1>1, ElementOfSeq
  <2> QED BY <2>1 DEF AddressesOf, Block
<1>3. CASE B = <<>>
  BY <1>2, <1>3 DEF check_point_allocated_blocks
<1>4. CASE B # <<>>
  <2>1. Len(B) \in DOMAIN B
    BY <1>1, <1>4, EmptySeq
  <2>2. check_point_allocated_blocks = B[Len(B)].address
    BY <1>4 DEF check_point_allocated_blocks, Last
  <2> HIDE DEF B
  <2>3. B[Len(B)].address \in AddressesOf(B)
    BY <2>1 DEF AddressesOf
  <2> QED BY <1>2, <1>4, <2>1, <2>2, <2>3 DEF B
<1> QED BY <1>3, <1>4

LEMMA BeginTyped ==
  ASSUME TypeInv, cmocka_run_one_test_or_fixture
  PROVE  TypeInv'
<1>1. /\ at \in Functions /\ Function # None /\ ~global_running_test
      /\ global_running_test' = TRUE /\ done' = <<>>
      /\ heap_check_point' = CheckPoint
      /\ check_point' = IF at = "setup" THEN check_point_allocated_blocks ELSE check_point
      /\ UNCHANGED <<suite, at, test, maps, heap, flags, status, group_error, code>>
  BY DEF cmocka_run_one_test_or_fixture
<1>2. check_point_allocated_blocks \in Points /\ check_point_allocated_blocks # NULL
  BY CheckPointTyped DEF TypeInv, Points, Addresses, NULL, head
<1>3. CheckPoint \in Points /\ CheckPoint # NULL
  BY <1>2 DEF CheckPoint, TypeInv, ProgramOK, Points, NULL, head
<1>4. ProgramOK' /\ UNCHANGED Places
  BY <1>1, <1>2 DEF TypeInv, ProgramOK, Places
<1>5. IsSequence(done')
  BY <1>1, EmptySeq DEF IsSequence
<1>6. FlagsOK'
  BY <1>1, <1>3, <1>4, <1>5 DEF TypeInv, FlagsOK, Function, flags
<1>7. ListsOK' /\ HeapOK'
  BY <1>1 DEF TypeInv, ListsOK, HeapOK, maps, heap
<1> QED BY <1>4, <1>6, <1>7 DEF TypeInv

LEMMA FinishTyped ==
  ASSUME TypeInv, Finish
  PROVE  TypeInv'
<1>1. /\ at = "finish" /\ at' = "ended" /\ done' = <<>>
      /\ code' = IF global_allocated_blocks # <<>> THEN EXITED
                 ELSE Cardinality(Failed) + IF group_error THEN 1 ELSE 0
      /\ UNCHANGED <<suite, test, global_running_test, maps, heap,
                     heap_check_point, check_point, flags, status, group_error>>
  BY DEF Finish
<1>2. Cardinality(Failed) \in Nat
  <2>1. IsFiniteSet(1 .. Len(suite.tests))
    BY TestsOf, FS_Interval DEF TypeInv, ProgramOK
  <2>2. Failed \subseteq 1 .. Len(suite.tests)
    BY TestsOf DEF Failed, TypeInv, ProgramOK
  <2> QED BY <2>1, <2>2, FS_Subset, FS_CardinalityType
<1>3. code' \in {RUNS, EXITED, KILLED} \union Nat
  BY <1>1, <1>2 DEF TypeInv, ProgramOK
<1>4. IsSequence(done')
  BY <1>1, EmptySeq DEF IsSequence
<1>5. ~global_running_test
  BY <1>1 DEF TypeInv, FlagsOK, Functions
<1>6. ProgramOK' /\ FlagsOK'
  BY <1>1, <1>3, <1>4, <1>5 DEF TypeInv, ProgramOK, FlagsOK, Places, flags
<1>7. ListsOK' /\ HeapOK'
  BY <1>1 DEF TypeInv, ListsOK, HeapOK, maps, heap
<1> QED BY <1>6, <1>7 DEF TypeInv

\* The types are right at first, and every step keeps them.
LEMMA InitTyped ==
  ASSUME Init
  PROVE  TypeInv
<1>1. 1 \in DOMAIN suite.tests
  BY TestsOf DEF Init
<1>2. ProgramOK
  BY <1>1 DEF Init, ProgramOK, Functions, Verdict, Points
<1>3. <<>> \in Seq(Block) /\ DOMAIN <<>> = {}
  OBVIOUS
<1>4. FlagsOK
  BY EmptySeq DEF Init, FlagsOK, Points, IsSequence
<1>5. HeapOK
  BY <1>3 DEF Init, HeapOK, Distinct
<1>6. ListsOK
  BY NoValues DEF Init, ListsOK
<1> QED BY <1>2, <1>4, <1>5, <1>6 DEF TypeInv

LEMMA NextCases ==
  ASSUME [Next]_vars
  PROVE  \/ Calling \/ Return \/ NoFunction \/ cmocka_run_one_test_or_fixture \/ Finish
         \/ UNCHANGED vars
BY Zenon DEF Next, Calling, Ended

LEMMA StepTyped ==
  ASSUME CallsWellFormed, TypeInv, [Next]_vars
  PROVE  TypeInv'
<1>1. CASE Calling
  BY <1>1, CallingStep DEF CallStep
<1>2. CASE UNCHANGED vars
  BY <1>2 DEF vars, TypeInv, ProgramOK, FlagsOK, ListsOK, HeapOK, Places, Function, maps, heap, flags
<1> QED BY <1>1, <1>2, NextCases, ReturnStep, NoFunctionTyped, BeginTyped, FinishTyped

\* The runner's state has its types, the counts of the values are such, no two
\* blocks share an address, and no list outlives the function that filled it.
THEOREM CmockaTypeOKHolds ==
  ASSUME CallsWellFormed
  PROVE  Spec => []CmockaTypeOK
<1>1. TypeInv => CmockaTypeOK
  <2>1. SUFFICES ASSUME TypeInv PROVE CmockaTypeOK
    OBVIOUS
  <2>2. ASSUME NEW list \in Lists
        PROVE  /\ \A i \in DOMAIN list :
                    list[i].refcount \in {WILL_RETURN_ALWAYS, WILL_RETURN_ONCE} \union Nat
               /\ ~global_running_test => list = <<>>
    <3>1. IsList(list)
      BY <2>1 DEF TypeInv, ListsOK, Lists
    <3>2. ~global_running_test => list = <<>>
      BY <2>1 DEF TypeInv, ListsOK, Lists
    <3> QED BY <3>1, <3>2 DEF IsList, Counts
  <2>3. Cardinality(Allocated) = Len(global_allocated_blocks)
    <3> DEFINE B == global_allocated_blocks
               f == [i \in 1 .. Len(B) |-> B[i].address]
    <3>1. Len(B) \in Nat /\ DOMAIN B = 1 .. Len(B) /\ Distinct(B)
      BY <2>1, LenProperties DEF TypeInv, HeapOK
    <3>2. f \in Bijection(1 .. Len(B), Allocated)
      <4>1. f \in Surjection(1 .. Len(B), Allocated)
        BY <3>1, Fun_IsSurj DEF Allocated
      <4>2. f \in Injection(1 .. Len(B), Allocated)
        BY <3>1, Fun_IsInj DEF Allocated, Distinct
      <4> QED BY <4>1, <4>2 DEF Bijection
    <3> DEFINE L == Len(B)
               D == 1 .. L
    <3> HIDE DEF f
    <3>3. L \in Int /\ 1 \in Int /\ f \in Bijection(D, Allocated)
      BY <3>1, <3>2
    <3> HIDE DEF L
    <3>4. IsFiniteSet(D) /\ Cardinality(D) = IF 1 > L THEN 0 ELSE L - 1 + 1
      BY <3>3, FS_Interval
    <3>5. L \in Nat
      BY <3>1 DEF L
    <3>6. Cardinality(D) = L
      BY <3>4, <3>5
    <3> HIDE DEF D
    <3>7. Cardinality(Allocated) = Cardinality(D)
      BY <3>3, <3>4, FS_Bijection DEF ExistsBijection
    <3> QED BY <3>6, <3>7 DEF L
  <2>4. Allocated \subseteq Addresses
    BY <2>1, CheckPointTyped DEF TypeInv, Allocated, AddressesOf
  <2>5. \A p \in Pointers : pointer[p] \in {0} \union Allocated
    BY <2>1 DEF TypeInv, HeapOK, Allocated, AddressesOf
  <2>6. {status[i] : i \in DOMAIN status} \subseteq Verdict
    BY <2>1 DEF TypeInv, ProgramOK
  <2>7. \A w \in skipped \union lost : w \in Functions \X DOMAIN suite.tests
    BY <2>1 DEF TypeInv, FlagsOK, Places
  <2> QED BY <2>1, <2>2, <2>3, <2>4, <2>5, <2>6, <2>7
          DEF CmockaTypeOK, TypeInv, ProgramOK, FlagsOK, Points
<1>2. Init => TypeInv
  BY InitTyped
<1>3. TypeInv /\ [Next]_vars => TypeInv'
  BY StepTyped
<1> QED BY <1>1, <1>2, <1>3, PTL DEF Spec

(***************************************************************************)
(* The flag of skip().                                                     *)
(***************************************************************************)
\* Between functions it is set only by something else than a test.
SkipOK == global_skip_test => \E w \in skipped : w[1] # "test"

\* What a step may do with it: nothing, reset it, or set it in a fixture.
LEMMA SkipSteps ==
  ASSUME TypeInv, CallsWellFormed, SkipOK, [Next]_vars
  PROVE  SkipOK'
<1>1. ASSUME global_skip_test' \in {global_skip_test, FALSE}, skipped' = skipped PROVE SkipOK'
  BY <1>1 DEF SkipOK, TypeInv, FlagsOK
<1>2. ASSUME NEW rc, NEW skip \in BOOLEAN, Proceeds(rc, skip) PROVE global_skip_test' \in {skip, FALSE}
  BY <1>2, ProceedsTyped DEF TypeInv
<1>3. global_skip_test \in BOOLEAN
  BY DEF TypeInv, FlagsOK
<1>4. CASE Calling
  <2>1. CASE Continues \/ Dies
    BY <1>1, <2>1 DEF Continues, Dies
  <2>2. CASE Stops
    <3>1. Proceeds(-1, global_skip_test) /\ skipped' = skipped
      BY <2>2 DEF Stops, Leave
    <3> QED BY <1>1, <1>2, <1>3, <3>1
  <2>3. CASE Skips
    <3>1. Proceeds(-1, TRUE) /\ skipped' = skipped \union {<<at, test>>}
      BY <2>3 DEF Skips, Leave
    <3>2. CASE at # "test"
      <4> DEFINE w == <<at, test>>
      <4>1. w \in skipped' /\ w[1] # "test"
        BY <3>1, <3>2
      <4> HIDE DEF w
      <4>2. \E u \in skipped' : u[1] # "test"
        BY <4>1
      <4> QED BY <4>2 DEF SkipOK
    <3>3. CASE at = "test"
      <4>1. global_skip_test' = Unskipped(-1, TRUE)
        BY <3>1, <3>3 DEF Proceeds, cmocka_run_one_tests, cmocka_run_group_fixture
      <4>2. ~Unskipped(-1, TRUE)
        BY DEF Unskipped
      <4> QED BY <4>1, <4>2, Zenon DEF SkipOK
    <3> QED BY <3>2, <3>3
  <2> QED BY <1>4, <2>1, <2>2, <2>3, CallingStep DEF CallStep
<1>5. CASE Return
  <2>1. PICK rc : Proceeds(rc, global_skip_test) /\ skipped' = skipped
    BY <1>5, ReturnStep DEF ReturnsWith, Leave
  <2> QED BY <1>1, <1>2, <1>3, <2>1
<1>6. CASE NoFunction
  BY <1>1, <1>2, <1>3, <1>6 DEF NoFunction
<1>7. CASE cmocka_run_one_test_or_fixture \/ Finish
  BY <1>1, <1>7 DEF cmocka_run_one_test_or_fixture, Finish, flags
<1>8. CASE UNCHANGED vars
  BY <1>1, <1>8 DEF vars, flags
<1> QED BY <1>4, <1>5, <1>6, <1>7, <1>8, NextCases

\* A test reported skipped asked for it, or a fixture that ran before it did.
THEOREM SkipIsAskedHolds ==
  ASSUME CallsWellFormed
  PROVE  Spec => SkipIsAsked
<1>1. Init => TypeInv /\ SkipOK
  BY InitTyped DEF Init, SkipOK
<1>2. TypeInv /\ SkipOK /\ [Next]_vars => (TypeInv /\ SkipOK)'
  BY StepTyped, SkipSteps
<1>3. ASSUME TypeInv, SkipOK, [Next]_vars, TestEnds, status'[test] = "SKIPPED"
      PROVE  \E w \in skipped' : w = <<"test", test>> \/ w[1] # "test"
  <2>1. at = "test" /\ global_running_test /\ at' = "teardown"
    BY <1>3 DEF TestEnds
  <2>2. status \in [DOMAIN suite.tests -> Verdict] /\ test \in DOMAIN suite.tests
    BY <1>3 DEF TypeInv, ProgramOK
  <2>3. ASSUME NEW rc, NEW skip, Proceeds(rc, skip) PROVE skip
    <3>1. Becomes(IF rc = 0 THEN "PASSED" ELSE IF skip THEN "SKIPPED" ELSE "FAILED")
      BY <2>1, <2>3 DEF Proceeds, cmocka_run_one_tests, cmocka_run_group_fixture
    <3>2. status'[test] = IF rc = 0 THEN "PASSED" ELSE IF skip THEN "SKIPPED" ELSE "FAILED"
      BY <2>2, <3>1 DEF Becomes
    <3> QED BY <1>3, <3>2
  <2>4. ASSUME skipped' = skipped, global_skip_test PROVE \E w \in skipped' : w[1] # "test"
    BY <1>3, <2>4 DEF SkipOK
  <2>5. CASE Calling
    <3>1. CASE Continues \/ Dies
      BY <2>1, <3>1 DEF Continues, Dies, runner
    <3>2. CASE Stops
      BY <2>3, <2>4, <3>2 DEF Stops, Leave
    <3>3. CASE Skips
      BY <2>1, <3>3 DEF Skips
    <3> QED BY <1>3, <2>5, <3>1, <3>2, <3>3, CallingStep DEF CallStep
  <2>6. CASE Return
    <3>1. PICK rc : Proceeds(rc, global_skip_test) /\ skipped' = skipped
      BY <1>3, <2>6, ReturnStep DEF ReturnsWith, Leave
    <3> QED BY <2>3, <2>4, <3>1
  <2>7. CASE NoFunction \/ cmocka_run_one_test_or_fixture \/ Finish \/ UNCHANGED vars
    BY <1>3, <2>1, <2>7, NoFunctionTyped DEF cmocka_run_one_test_or_fixture, Finish, vars
  <2> QED BY <1>3, <2>5, <2>6, <2>7, NextCases
<1>4. TypeInv /\ SkipOK /\ [Next]_vars
      => [TestEnds /\ status'[test] = "SKIPPED"
          => \E w \in skipped' : w = <<"test", test>> \/ w[1] # "test"]_vars
  BY <1>3
<1> QED BY <1>1, <1>2, <1>4, PTL DEF Spec, SkipIsAsked

(***************************************************************************)
(* Blocks that are left.                                                   *)
(***************************************************************************)
\* The function has been entered.
Begun(w) ==
  \/ w[2] < test \/ at \in {"group_teardown", "finish", "ended"}
  \/ w[2] = test /\ \/ w[1] = at /\ global_running_test
                    \/ w[1] = "setup" /\ at \in {"test", "teardown"}
                    \/ w[1] = "test" /\ at = "teardown"

\* Whoever had to find the blocks of a function has returned.
Answered(w) ==
  \/ w[2] < test \/ at \in {"group_teardown", "finish"}
  \/ w = <<"test", test>> /\ at = "teardown"

Pardoned(w) ==
  \/ w[1] \in {"group_setup", "group_teardown"}
  \/ w[1] = "test" /\ (status[w[2]] # "PASSED" \/ w \in lost)
  \/ w[1] = "setup" /\ \/ status[w[2]] = "ERROR" \/ suite.tests[w[2]].teardown = None
                       \/ <<"teardown", w[2]>> \in lost
  \/ w[1] = "teardown" /\ (status[w[2]] = "ERROR" \/ w \in lost)

\* The blocks are those of functions that ran; the ones nobody will find any
\* more are excused.
ChargedInv ==
  \A w \in By(global_allocated_blocks) :
    /\ w \in Places
    /\ w[1] \in {"group_setup", "group_teardown"} \/ Begun(w)
    /\ Answered(w) => Pardoned(w)

\* The blocks of the setup would be found by its teardown.
SetupGuarded ==
  IF check_point = NULL THEN <<"setup", test>> \notin By(global_allocated_blocks)
  ELSE Guarded(global_allocated_blocks, lost, <<"teardown", test>>, <<"setup", test>>, check_point)

\* The blocks of a function that runs lie behind its checkpoint, those of the
\* setup behind the checkpoint of the teardown.
CheckInv ==
  /\ global_running_test /\ at \in {"test", "teardown"} =>
       Guarded(global_allocated_blocks, lost, <<at, test>>, <<at, test>>, heap_check_point)
  /\ at \in {"test", "teardown"} \/ (at = "setup" /\ global_running_test) => SetupGuarded
  /\ global_running_test /\ at = "teardown" /\ check_point # NULL => heap_check_point = check_point
  /\ at = "setup" => (check_point # NULL <=> global_running_test)
  /\ global_running_test /\ at = "test" =>
       Ordered(global_allocated_blocks, lost, <<"teardown", test>>, check_point, heap_check_point)

\* What a checkpoint says of whoever returned good.
LEMMA ExcusedFacts ==
  ASSUME NEW b, b.by \in Places, Pardoned(b.by)
  PROVE  Excused(b)
<1> DEFINE w == b.by
<1>1. w[1] \in Functions
  BY DEF Places
<1>2. CASE w[1] \in {"group_setup", "group_teardown"}
  BY <1>2 DEF Excused
<1>3. CASE w[1] = "test"
  BY <1>3 DEF Excused, Pardoned
<1>4. CASE w[1] = "setup"
  BY <1>4 DEF Excused, Pardoned
<1>5. CASE w[1] = "teardown"
  BY <1>5 DEF Excused, Pardoned
<1> QED BY <1>1, <1>2, <1>3, <1>4, <1>5 DEF Functions

\* The next function, and the verdicts so far.
LEMMA ProceedsFacts ==
  ASSUME ProgramOK, NEW rc, NEW skip, Proceeds(rc, skip)
  PROVE  /\ suite' = suite /\ \A i \in DOMAIN suite.tests : i # test => status'[i] = status[i]
         /\ at = "group_setup" => at' \in {"setup", "group_teardown"} /\ UNCHANGED <<test, status>>
         /\ at = "group_teardown" => at' = "finish" /\ UNCHANGED <<test, status>>
         /\ at = "setup" /\ rc = 0 => at' = "test" /\ UNCHANGED <<test, status, check_point>>
         /\ at = "setup" /\ rc # 0 => status'[test] = "ERROR" /\ NextTest
         /\ at = "test" => /\ at' = "teardown" /\ UNCHANGED <<test, check_point>>
                           /\ status'[test] = "PASSED" => rc = 0
         /\ at = "teardown" => /\ NextTest
                               /\ status'[test] = IF rc = 0 THEN status[test] ELSE "ERROR"
         /\ at' \notin {"test", "teardown"} => check_point' = NULL
<1>1. status \in [DOMAIN suite.tests -> Verdict] /\ test \in DOMAIN suite.tests
  BY DEF ProgramOK
<1>2. ASSUME NEW v, Becomes(v)
      PROVE  status'[test] = v /\ \A i \in DOMAIN suite.tests : i # test => status'[i] = status[i]
  BY <1>1, <1>2 DEF Becomes
<1>3. /\ suite' = suite
      /\ cmocka_run_one_tests(rc, skip) \/ cmocka_run_group_fixture(rc, skip)
      /\ check_point' = IF at' \in {"test", "teardown"} THEN check_point ELSE NULL
  BY DEF Proceeds
<1>4. CASE at = "setup" /\ rc = 0 /\ at' = "test" /\ UNCHANGED <<test, status>>
  BY <1>3, <1>4
<1>5. CASE at = "setup" /\ rc # 0 /\ Becomes("ERROR") /\ NextTest
  BY <1>2, <1>3, <1>5
<1>6. CASE /\ at = "test" /\ at' = "teardown" /\ UNCHANGED test
           /\ Becomes(IF rc = 0 THEN "PASSED" ELSE IF skip THEN "SKIPPED" ELSE "FAILED")
  <2>1. status'[test] = IF rc = 0 THEN "PASSED" ELSE IF skip THEN "SKIPPED" ELSE "FAILED"
    BY <1>2, <1>6
  <2>2. status'[test] = "PASSED" => rc = 0
    BY <2>1
  <2>3. \A i \in DOMAIN suite.tests : i # test => status'[i] = status[i]
    BY <1>2, <1>6
  <2> QED BY <1>3, <1>6, <2>2, <2>3
<1>7. CASE at = "teardown" /\ NextTest /\ IF rc = 0 THEN UNCHANGED status ELSE Becomes("ERROR")
  <2>1. CASE rc = 0
    BY <1>3, <1>7, <2>1
  <2>2. CASE rc # 0
    BY <1>2, <1>3, <1>7, <2>2
  <2> QED BY <2>1, <2>2
<1>8. CASE cmocka_run_group_fixture(rc, skip)
  BY <1>3, <1>8 DEF cmocka_run_group_fixture
<1> QED BY <1>3, <1>4, <1>5, <1>6, <1>7, <1>8 DEF cmocka_run_one_tests

\* What was excused stays excused.
LEMMA PardonedKept ==
  ASSUME NEW w, Pardoned(w), lost \subseteq lost', suite' = suite,
         status[w[2]] # "PASSED" => status'[w[2]] # "PASSED",
         status[w[2]] = "ERROR" => status'[w[2]] = "ERROR"
  PROVE  Pardoned(w)'
BY DEF Pardoned

\* The end of a function, if there was one.
LEMMA LeaveCharged ==
  ASSUME TypeInv, ChargedInv, CheckInv, at \in Functions, NEW rc, NEW skip, Proceeds(rc, skip),
         global_running_test' = FALSE, lost \subseteq lost',
         IF global_running_test
         THEN By(global_allocated_blocks') \subseteq By(global_allocated_blocks) \union {<<at, test>>}
         ELSE By(global_allocated_blocks') \subseteq By(global_allocated_blocks),
         at \in {"setup", "test"} =>
           \A by : Guarded(global_allocated_blocks, lost, <<"teardown", test>>, by, check_point)
                  => Guarded(global_allocated_blocks', lost', <<"teardown", test>>, by, check_point),
         rc = 0 /\ at = "test" =>
           <<"test", test>> \notin By(global_allocated_blocks') \/ <<"test", test>> \in lost',
         rc = 0 /\ at = "teardown" =>
           \/ <<"teardown", test>> \in lost'
           \/ /\ <<"teardown", test>> \notin By(global_allocated_blocks')
              /\ <<"setup", test>> \in By(global_allocated_blocks') => suite.tests[test].teardown = None
  PROVE  ChargedInv' /\ CheckInv'
<1> DEFINE old == By(global_allocated_blocks)
           new == By(global_allocated_blocks')
<1>1. /\ suite' = suite /\ \A i \in DOMAIN suite.tests : i # test => status'[i] = status[i]
      /\ at = "group_setup" => at' \in {"setup", "group_teardown"} /\ UNCHANGED <<test, status>>
      /\ at = "group_teardown" => at' = "finish" /\ UNCHANGED <<test, status>>
      /\ at = "setup" /\ rc = 0 => at' = "test" /\ UNCHANGED <<test, status, check_point>>
      /\ at = "setup" /\ rc # 0 => status'[test] = "ERROR" /\ NextTest
      /\ at = "test" => /\ at' = "teardown" /\ UNCHANGED <<test, check_point>>
                        /\ status'[test] = "PASSED" => rc = 0
      /\ at = "teardown" => /\ NextTest
                            /\ status'[test] = IF rc = 0 THEN status[test] ELSE "ERROR"
      /\ at' \notin {"test", "teardown"} => check_point' = NULL
  BY ProceedsFacts DEF TypeInv
<1>2. /\ test \in DOMAIN suite.tests /\ DOMAIN suite.tests \subseteq Nat /\ Places' = Places
      /\ <<at, test>> \in Places
  BY <1>1, TestsOf DEF TypeInv, ProgramOK, Places
<1>3. NextTest => \/ at' = "setup" /\ test' = test + 1
                  \/ at' = "group_teardown" /\ test' = test
  BY DEF NextTest
<1>4. ASSUME NEW w \in new
      PROVE  /\ w \in Places /\ w[1] \in Functions /\ w[2] \in Nat /\ w[2] \in DOMAIN suite.tests
             /\ \/ w[1] \in {"group_setup", "group_teardown"} \/ Begun(w)
                \/ w[1] = at /\ w[2] = test
             /\ w = <<w[1], w[2]>>
             /\ w \in old \/ w = <<at, test>>
  <2>1. w \in old \/ w = <<at, test>>
    BY <1>4
  <2>2. w \in Places
    BY <1>2, <2>1 DEF ChargedInv
  <2>3. w \in old => w[1] \in {"group_setup", "group_teardown"} \/ Begun(w)
    BY DEF ChargedInv
  <2> QED BY <1>2, <2>1, <2>2, <2>3 DEF Places
<1>5. ASSUME NEW w \in new PROVE w[1] \in {"group_setup", "group_teardown"} \/ Begun(w)'
  <2>1. /\ w[2] \in Nat /\ test \in Nat
        /\ \/ w[1] \in {"group_setup", "group_teardown"} \/ Begun(w)
           \/ w[1] = at /\ w[2] = test
    BY <1>2, <1>4
  <2>2. CASE at = "group_setup"
    BY <1>1, <2>1, <2>2 DEF Begun
  <2>3. CASE at = "setup" /\ rc = 0
    BY <1>1, <2>1, <2>3 DEF Begun
  <2>4. CASE (at = "setup" /\ rc # 0) \/ at = "teardown"
    BY <1>1, <1>3, <2>1, <2>4 DEF Begun
  <2>5. CASE at = "test"
    BY <1>1, <2>1, <2>5 DEF Begun
  <2>6. CASE at = "group_teardown"
    BY <1>1, <2>6 DEF Begun
  <2> QED BY <2>2, <2>3, <2>4, <2>5, <2>6 DEF Functions
<1>6. ASSUME NEW w \in new, Answered(w)' PROVE Pardoned(w)'
  <2>1. /\ w[1] \in Functions /\ w[2] \in Nat /\ w[2] \in DOMAIN suite.tests /\ test \in Nat
        /\ \/ w[1] \in {"group_setup", "group_teardown"} \/ Begun(w)
           \/ w[1] = at /\ w[2] = test
    BY <1>2, <1>4
  <2>2. w = <<w[1], w[2]>>
    BY <1>4
  <2>3. CASE w[1] \in {"group_setup", "group_teardown"}
    BY <2>3 DEF Pardoned
  <2>4. CASE w[1] \notin {"group_setup", "group_teardown"} /\ w[2] < test
    <3>1. w \in old /\ Answered(w)
      BY <1>4, <2>1, <2>4 DEF Answered
    <3>2. Pardoned(w) /\ status'[w[2]] = status[w[2]]
      BY <1>1, <2>1, <2>4, <3>1 DEF ChargedInv
    <3> QED BY <1>1, <3>2, PardonedKept
  <2>5. CASE w[1] \notin {"group_setup", "group_teardown"} /\ ~(w[2] < test)
    <3>1. CASE at = "group_setup"
      BY <2>1, <2>5, <3>1 DEF Begun
    <3>2. CASE at = "setup" /\ rc = 0
      BY <1>1, <1>6, <2>1, <2>5, <3>2 DEF Answered
    <3>3. CASE at = "setup" /\ rc # 0
      <4>1. w[1] = "setup" /\ w[2] = test
        BY <2>1, <2>5, <3>3 DEF Begun
      <4>2. status'[w[2]] = "ERROR"
        BY <1>1, <3>3, <4>1
      <4> QED BY <4>1, <4>2 DEF Pardoned
    <3>4. CASE at = "test"
      <4>1. w = <<"test", test>>
        BY <1>1, <1>6, <2>1, <2>5, <3>4 DEF Answered
      <4>2. w[1] = "test" /\ w[2] = test
        BY <4>1
      <4>3. status'[w[2]] # "PASSED" \/ w \in lost'
        BY <1>1, <1>6, <3>4, <4>1, <4>2
      <4> QED BY <4>2, <4>3 DEF Pardoned
    <3>5. CASE at = "teardown"
      <4>1. w[2] = test /\ w[1] \in {"setup", "test", "teardown"}
        BY <2>1, <2>5, <3>5 DEF Begun, Functions
      <4>2. status'[w[2]] = IF rc = 0 THEN status[w[2]] ELSE "ERROR"
        BY <1>1, <3>5, <4>1
      <4>3. CASE rc # 0
        BY <4>1, <4>2, <4>3 DEF Pardoned
      <4>4. CASE rc = 0 /\ w[1] = "test"
        <5>1. w = <<"test", test>> /\ w # <<at, test>>
          BY <2>2, <3>5, <4>1, <4>4
        <5>2. w \in old /\ Answered(w)
          BY <1>4, <3>5, <5>1 DEF Answered
        <5>3. Pardoned(w)
          BY <5>2 DEF ChargedInv
        <5> QED BY <1>1, <4>2, <4>4, <5>3, PardonedKept
      <4>5. CASE rc = 0 /\ w[1] = "teardown"
        <5>1. w = <<"teardown", test>>
          BY <2>2, <4>1, <4>5
        <5>2. w \in lost'
          BY <1>6, <3>5, <4>5, <5>1
        <5> QED BY <4>5, <5>2 DEF Pardoned
      <4>6. CASE rc = 0 /\ w[1] = "setup"
        <5>1. w = <<"setup", test>>
          BY <2>2, <4>1, <4>6
        <5>2. <<"teardown", test>> \in lost' \/ suite.tests[test].teardown = None
          BY <1>6, <3>5, <4>6, <5>1
        <5>3. <<"teardown", w[2]>> \in lost' \/ suite'.tests[w[2]].teardown = None
          BY <1>1, <4>1, <5>2
        <5> QED BY <4>6, <5>3 DEF Pardoned
      <4> QED BY <4>1, <4>3, <4>4, <4>5, <4>6
    <3>6. CASE at = "group_teardown"
      <4>1. w \in old /\ Answered(w)
        BY <1>4, <2>5, <3>6 DEF Answered
      <4>2. Pardoned(w)
        BY <4>1 DEF ChargedInv
      <4> QED BY <1>1, <3>6, <4>2, PardonedKept
    <3> QED BY <3>1, <3>2, <3>3, <3>4, <3>5, <3>6 DEF Functions
  <2> QED BY <2>3, <2>4, <2>5
<1>7. ChargedInv'
  BY <1>2, <1>4, <1>5, <1>6 DEF ChargedInv
<1>8. at' \in {"test", "teardown"} => SetupGuarded'
  <2>1. CASE at' \notin {"test", "teardown"}
    BY <2>1
  <2>2. CASE (at = "setup" /\ rc = 0) \/ at = "test"
    <3>1. UNCHANGED <<test, check_point>>
      BY <1>1, <2>2
    <3>2. CASE check_point # NULL
      <4>1. SetupGuarded
        BY <2>2, <3>2 DEF CheckInv
      <4>2. Guarded(global_allocated_blocks, lost, <<"teardown", test>>, <<"setup", test>>, check_point)
        BY <3>2, <4>1 DEF SetupGuarded
      <4>3. Guarded(global_allocated_blocks', lost', <<"teardown", test>>, <<"setup", test>>, check_point)
        BY <2>2, <4>2
      <4> QED BY <3>1, <3>2, <4>3 DEF SetupGuarded
    <3>3. CASE check_point = NULL
      <4>1. CASE at = "setup"
        <5>1. ~global_running_test
          BY <3>3, <4>1 DEF CheckInv
        <5>2. <<"setup", test>> \notin new
          BY <1>2, <4>1, <5>1 DEF ChargedInv, Begun
        <5> QED BY <3>1, <3>3, <5>2 DEF SetupGuarded
      <4>2. CASE at = "test"
        <5>1. <<"setup", test>> \notin old
          BY <3>3, <4>2 DEF CheckInv, SetupGuarded
        <5>2. <<"setup", test>> \notin new
          BY <4>2, <5>1
        <5> QED BY <3>1, <3>3, <5>2 DEF SetupGuarded
      <4> QED BY <2>2, <4>1, <4>2
    <3> QED BY <3>2, <3>3
  <2>3. CASE at \in {"group_setup", "group_teardown", "teardown"} \/ (at = "setup" /\ rc # 0)
    BY <1>1, <1>3, <2>3
  <2> QED BY <2>1, <2>2, <2>3 DEF Functions
<1>9. CheckInv'
  BY <1>1, <1>8 DEF CheckInv
<1> QED BY <1>7, <1>9

\* A call after which the function goes on,
LEMMA ContinuesCharged ==
  ASSUME TypeInv, ChargedInv, CheckInv, global_running_test, HeapKept, Continues
  PROVE  ChargedInv' /\ CheckInv'
<1>1. /\ UNCHANGED <<suite, at, test, global_running_test, status, heap_check_point, check_point>>
      /\ at \in Functions
  BY DEF Continues, runner, TypeInv, FlagsOK
<1>2. /\ By(global_allocated_blocks') \subseteq By(global_allocated_blocks) \union {<<at, test>>}
      /\ lost \subseteq lost'
      /\ \A by : Guarded(global_allocated_blocks, lost, <<at, test>>, by, heap_check_point)
                => Guarded(global_allocated_blocks', lost', <<at, test>>, by, heap_check_point)
      /\ \A by : Guarded(global_allocated_blocks, lost, <<"teardown", test>>, by, check_point)
                => Guarded(global_allocated_blocks', lost', <<"teardown", test>>, by, check_point)
      /\ Ordered(global_allocated_blocks, lost, <<"teardown", test>>, check_point, heap_check_point)
           => Ordered(global_allocated_blocks', lost', <<"teardown", test>>, check_point,
                      heap_check_point)
  BY DEF HeapKept
<1>3. <<at, test>> \in Places /\ Places' = Places /\ test \in Nat
  BY <1>1, TestsOf DEF TypeInv, ProgramOK, Places
<1>4. ASSUME NEW w \in By(global_allocated_blocks')
      PROVE  /\ w \in Places'
             /\ w[1] \in {"group_setup", "group_teardown"} \/ Begun(w)'
             /\ Answered(w)' => Pardoned(w)'
  <2>1. CASE w \in By(global_allocated_blocks)
    <3>1. /\ w \in Places
          /\ w[1] \in {"group_setup", "group_teardown"} \/ Begun(w)
          /\ Answered(w) => Pardoned(w)
      BY <2>1 DEF ChargedInv
    <3>2. (Begun(w) => Begun(w)') /\ (Answered(w)' => Answered(w))
      BY <1>1 DEF Begun, Answered
    <3>3. Pardoned(w) => Pardoned(w)'
      BY <1>1, <1>2, PardonedKept
    <3> QED BY <1>3, <3>1, <3>2, <3>3
  <2>2. CASE w = <<at, test>>
    <3>1. w[1] = at /\ w[2] = test
      BY <2>2
    <3>2. Begun(w)'
      BY <1>1, <3>1 DEF Begun
    <3>3. Answered(w)' => at = "group_teardown"
      BY <1>1, <1>3, <2>2, <3>1 DEF Answered, Functions
    <3>4. at = "group_teardown" => Pardoned(w)'
      BY <3>1 DEF Pardoned
    <3> QED BY <1>3, <2>2, <3>2, <3>3, <3>4
  <2> QED BY <1>2, <2>1, <2>2
<1>5. at \in {"setup", "test", "teardown"} => SetupGuarded'
  <2>1. SUFFICES ASSUME at \in {"setup", "test", "teardown"} PROVE SetupGuarded'
    OBVIOUS
  <2>2. SetupGuarded
    BY <2>1 DEF CheckInv
  <2>3. CASE check_point = NULL
    <3>1. at # "setup" /\ <<"setup", test>> \notin By(global_allocated_blocks)
      BY <2>2, <2>3 DEF CheckInv, SetupGuarded
    <3>2. <<"setup", test>> \notin By(global_allocated_blocks')
      BY <1>2, <3>1
    <3> QED BY <1>1, <2>3, <3>2 DEF SetupGuarded
  <2>4. CASE check_point # NULL
    BY <1>1, <1>2, <2>2, <2>4 DEF SetupGuarded
  <2> QED BY <2>3, <2>4
<1>6. ChargedInv'
  BY <1>4 DEF ChargedInv
<1>7. at \in {"test", "teardown"} =>
        Guarded(global_allocated_blocks', lost', <<at, test>>, <<at, test>>, heap_check_point)
  BY <1>2 DEF CheckInv
<1>8. at = "test" => Ordered(global_allocated_blocks', lost', <<"teardown", test>>, check_point,
                             heap_check_point)
  BY <1>2 DEF CheckInv
<1>9. /\ at = "teardown" /\ check_point # NULL => heap_check_point = check_point
      /\ at = "setup" => check_point # NULL
  BY DEF CheckInv
<1>10. CheckInv'
  BY <1>1, <1>5, <1>7, <1>8, <1>9 DEF CheckInv
<1> QED BY <1>6, <1>10

\* the end of the process,
LEMMA EndCharged ==
  ASSUME TypeInv, ChargedInv, at' = "ended", global_running_test' = FALSE,
         UNCHANGED <<suite, test, status>>, lost \subseteq lost',
         \/ By(global_allocated_blocks') \subseteq By(global_allocated_blocks)
         \/ /\ at \in Functions
            /\ By(global_allocated_blocks') \subseteq By(global_allocated_blocks) \union {<<at, test>>}
  PROVE  ChargedInv' /\ CheckInv'
<1>1. ASSUME NEW w \in By(global_allocated_blocks')
      PROVE  w \in Places' /\ Begun(w)' /\ (Answered(w)' => Pardoned(w)')
  <2>0. test \in DOMAIN suite.tests /\ test \in Nat
    BY TestsOf DEF TypeInv, ProgramOK
  <2>1. w \in By(global_allocated_blocks) \/ (w = <<at, test>> /\ at \in Functions)
    BY <1>1
  <2>2. w \in Places'
    BY <2>0, <2>1 DEF ChargedInv, Places
  <2>3. Begun(w)'
    BY DEF Begun
  <2>4. Answered(w)' => w[2] < test
    BY DEF Answered
  <2>5. CASE w \in By(global_allocated_blocks)
    <3>1. w[2] < test => Pardoned(w)
      BY <2>5 DEF ChargedInv, Answered
    <3> QED BY <2>2, <2>3, <2>4, <3>1, PardonedKept
  <2>6. CASE w = <<at, test>>
    BY <2>0, <2>2, <2>3, <2>4, <2>6
  <2> QED BY <2>1, <2>5, <2>6
<1>2. ChargedInv'
  BY <1>1 DEF ChargedInv
<1>3. CheckInv'
  BY DEF CheckInv
<1> QED BY <1>2, <1>3

\* the start of a function,
LEMMA BeginCharged ==
  ASSUME TypeInv, ChargedInv, CheckInv, cmocka_run_one_test_or_fixture
  PROVE  ChargedInv' /\ CheckInv'
<1> DEFINE B == global_allocated_blocks
           last == check_point_allocated_blocks
           answer == <<"teardown", test>>
<1>1. /\ at \in Functions /\ ~global_running_test /\ global_running_test' = TRUE
      /\ heap_check_point' = CheckPoint
      /\ check_point' = IF at = "setup" THEN last ELSE check_point
      /\ UNCHANGED <<suite, at, test, status, global_allocated_blocks, lost>>
  BY DEF cmocka_run_one_test_or_fixture, TypeInv, FlagsOK, heap, flags
<1>2. /\ last \in AddressesOf(B) \union {head} /\ AddressesOf(B) \subseteq Addresses
      /\ B = <<>> => last = head
      /\ B # <<>> => Len(B) \in DOMAIN B /\ last = B[Len(B)].address
  BY CheckPointTyped DEF TypeInv
<1> HIDE DEF last
<1>3. last # NULL
  BY <1>2 DEF Addresses, NULL, head
<1>4. ChargedInv'
  <2>1. ASSUME NEW w
        PROVE  (Begun(w) => Begun(w)') /\ (Answered(w)' = Answered(w)) /\ (Pardoned(w)' = Pardoned(w))
    BY <1>1 DEF Begun, Answered, Pardoned
  <2>2. Places' = Places
    BY <1>1 DEF Places
  <2> QED BY <1>1, <2>1, <2>2 DEF ChargedInv
<1>5. test \in Nat
  BY TestsOf DEF TypeInv, ProgramOK
<1>6. at \in {"setup", "test", "teardown"} => <<at, test>> \notin By(B)
  <2>1. at \in {"setup", "test", "teardown"} => ~Begun(<<at, test>>)
    BY <1>1, <1>5 DEF Begun
  <2>2. <<at, test>>[1] = at
    OBVIOUS
  <2> QED BY <2>1, <2>2 DEF ChargedInv
<1>7. \A point : OlderBy(B, point) \subseteq By(B)
  BY DEF OlderBy, By
<1>8. \A who, by : by \notin By(B) => Guarded(B, lost, who, by, last)
  BY <1>2, <1>7 DEF Guarded
<1>9. at \in {"test", "teardown"} => SetupGuarded
  BY DEF CheckInv
<1>10. at \in {"setup", "test", "teardown"} => SetupGuarded'
  <2>1. CASE at = "setup"
    <3>1. check_point' # NULL /\ Guarded(B, lost, answer, <<"setup", test>>, check_point')
      BY <1>1, <1>3, <1>6, <1>8, <2>1
    <3> QED BY <1>1, <3>1 DEF SetupGuarded
  <2>2. CASE at \in {"test", "teardown"}
    BY <1>1, <1>9, <2>2 DEF SetupGuarded
  <2> QED BY <2>1, <2>2
<1>11. at \in {"test", "teardown"} => Guarded(B, lost, <<at, test>>, <<at, test>>, CheckPoint)
  <2>1. CASE at = "teardown" /\ check_point # NULL
    <3>1. Guarded(B, lost, answer, <<"setup", test>>, check_point)
      BY <1>9, <2>1 DEF SetupGuarded
    <3>2. <<at, test>> \notin OlderBy(B, check_point)
      BY <1>6, <1>7, <2>1
    <3> QED BY <2>1, <3>1, <3>2 DEF Guarded, CheckPoint
  <2>2. CASE at = "test" \/ (at = "teardown" /\ check_point = NULL)
    BY <1>6, <1>8, <2>2 DEF CheckPoint, last
  <2> QED BY <2>1, <2>2
<1>12. at = "test" => Ordered(B, lost, answer, check_point, CheckPoint)
  <2>1. SUFFICES ASSUME at = "test", answer \notin lost, check_point \notin {NULL, head}
                 PROVE  Ordered(B, lost, answer, check_point, last)
    BY DEF Ordered, CheckPoint, last
  <2>2. check_point \in AddressesOf(B)
    BY <1>9, <2>1 DEF SetupGuarded, Guarded
  <2>3. PICK i \in DOMAIN B : B[i].address = check_point
    BY <2>2 DEF AddressesOf
  <2>4. DOMAIN B = 1 .. Len(B) /\ Len(B) \in Nat
    BY LenProperties DEF TypeInv, HeapOK
  <2>5. Len(B) \in DOMAIN B /\ last = B[Len(B)].address /\ i <= Len(B)
    <3>1. B # <<>>
      BY <2>3
    <3> QED BY <1>2, <2>3, <2>4, <3>1
  <2>6. last # head
    <3>1. last \in AddressesOf(B)
      BY <2>5 DEF AddressesOf
    <3> QED BY <1>2, <3>1 DEF Addresses, head
  <2>7. Precedes(B, check_point, last)
    BY <2>3, <2>5 DEF Precedes
  <2> QED BY <2>2, <2>6, <2>7 DEF Ordered
<1>13. at = "teardown" /\ check_point # NULL => CheckPoint = check_point
  BY DEF CheckPoint
<1>14. CheckInv'
  BY <1>1, <1>3, <1>10, <1>11, <1>12, <1>13 DEF CheckInv
<1> QED BY <1>4, <1>14

\* and its return: if it is good no block of its own is left, unless its
\* checkpoint was lost.
LEMMA ReturnCharged ==
  ASSUME TypeInv, ChargedInv, CheckInv, Return
  PROVE  ChargedInv' /\ CheckInv'
<1> DEFINE B == global_allocated_blocks
           who == <<at, test>>
           answer == <<"teardown", test>>
<1>1. PICK rc : ReturnsWith(rc)
  BY ReturnStep
<1>2. global_running_test /\ at \in Functions /\ heap_check_point \in Points /\ heap_check_point # NULL
  BY ReturnStep DEF TypeInv, FlagsOK
<1>3. Proceeds(rc, global_skip_test) /\ global_running_test' = FALSE /\ lost' = lost
  BY <1>1 DEF ReturnsWith, Leave
<1>4. \/ /\ UNCHANGED global_allocated_blocks
         /\ Checked => Dangling(heap_check_point) \/ After(heap_check_point) = <<>> \/ rc # 0
      \/ /\ rc # 0 /\ Checked /\ ~Dangling(heap_check_point)
         /\ HeapIs(Before(heap_check_point) \o Freed(After(heap_check_point)))
  BY <1>1 DEF ReturnsWith, heap
<1>5. By(global_allocated_blocks') \subseteq By(B)
  BY <1>2, <1>3, <1>4, FreedHeap
<1>6. at \in {"setup", "test"} =>
        \A by : Guarded(B, lost, answer, by, check_point)
               => Guarded(global_allocated_blocks', lost', answer, by, check_point)
  <2>1. CASE UNCHANGED global_allocated_blocks
    BY <1>3, <2>1
  <2>2. CASE /\ Checked /\ ~Dangling(heap_check_point)
             /\ HeapIs(Before(heap_check_point) \o Freed(After(heap_check_point)))
    <3>1. at \in {"setup", "test"} => at = "test"
      BY <2>2 DEF Checked
    <3>2. at = "test" => Ordered(B, lost, answer, check_point, heap_check_point)
      BY <1>2 DEF CheckInv
    <3> QED BY <1>2, <1>3, <2>2, <3>1, <3>2, FreedHeap
  <2> QED BY <1>4, <2>1, <2>2
<1>7. ASSUME rc = 0, at \in {"test", "teardown"}, NEW by, NEW w,
             Guarded(B, lost, w, by, heap_check_point)
      PROVE  w \in lost \/ by \notin By(B)
  <2>1. UNCHANGED global_allocated_blocks /\ (Dangling(heap_check_point) \/ After(heap_check_point) = <<>>)
    BY <1>4, <1>7 DEF Checked
  <2>2. CASE Dangling(heap_check_point)
    BY <1>7, <2>2 DEF Guarded, Dangling, Allocated, AddressesOf
  <2>3. CASE ~Dangling(heap_check_point)
    <3>1. By(B) \subseteq IF heap_check_point = head THEN {} ELSE OlderBy(B, heap_check_point)
      BY <1>2, <2>1, <2>3, NothingAfter DEF TypeInv
    <3> QED BY <1>7, <3>1 DEF Guarded
  <2> QED BY <2>2, <2>3
<1>8. rc = 0 /\ at \in {"test", "teardown"} => who \in lost \/ who \notin By(B)
  BY <1>2, <1>7 DEF CheckInv
<1>9. rc = 0 /\ at = "teardown" => answer \in lost \/ <<"setup", test>> \notin By(B)
  <2>1. CASE check_point = NULL
    BY <2>1 DEF CheckInv, SetupGuarded
  <2>2. CASE check_point # NULL /\ at = "teardown"
    <3>1. heap_check_point = check_point /\ Guarded(B, lost, answer, <<"setup", test>>, check_point)
      BY <1>2, <2>2 DEF CheckInv, SetupGuarded
    <3> QED BY <1>7, <2>2, <3>1
  <2> QED BY <2>1, <2>2
<1>10. rc = 0 /\ at = "test" =>
         <<"test", test>> \notin By(global_allocated_blocks') \/ <<"test", test>> \in lost'
  BY <1>3, <1>5, <1>8
<1>11. rc = 0 /\ at = "teardown" =>
         \/ answer \in lost'
         \/ /\ answer \notin By(global_allocated_blocks')
            /\ <<"setup", test>> \in By(global_allocated_blocks') => suite.tests[test].teardown = None
  BY <1>3, <1>5, <1>8, <1>9
<1> QED BY <1>2, <1>3, <1>5, <1>6, <1>10, <1>11, LeaveCharged

\* A call that ends its function fails it.
LEMMA FailureCharged ==
  ASSUME TypeInv, ChargedInv, CheckInv, global_running_test, HeapKept, NEW skip, Leave(-1, skip)
  PROVE  ChargedInv' /\ CheckInv'
<1> DEFINE rc == -1
<1>0. rc # 0
  OBVIOUS
<1>1. Proceeds(rc, skip) /\ global_running_test' = FALSE /\ at \in Functions
  BY DEF Leave, TypeInv, FlagsOK
<1>2. /\ By(global_allocated_blocks') \subseteq By(global_allocated_blocks) \union {<<at, test>>}
      /\ lost \subseteq lost'
      /\ \A by : Guarded(global_allocated_blocks, lost, <<"teardown", test>>, by, check_point)
                => Guarded(global_allocated_blocks', lost', <<"teardown", test>>, by, check_point)
  BY DEF HeapKept
<1> HIDE DEF rc
<1>3. IF global_running_test
      THEN By(global_allocated_blocks') \subseteq By(global_allocated_blocks) \union {<<at, test>>}
      ELSE By(global_allocated_blocks') \subseteq By(global_allocated_blocks)
  BY <1>2
<1> QED BY <1>0, <1>1, <1>2, <1>3, LeaveCharged

LEMMA NoFunctionCharged ==
  ASSUME TypeInv, ChargedInv, CheckInv, NoFunction
  PROVE  ChargedInv' /\ CheckInv'
<1>1. /\ at \in Functions /\ Function = None /\ Proceeds(0, global_skip_test)
      /\ UNCHANGED <<global_allocated_blocks, lost>>
      /\ global_running_test' = global_running_test
  BY DEF NoFunction, heap
<1>2. ~global_running_test /\ at # "test" /\ global_running_test' = FALSE
  BY <1>1, NoFunctionTyped DEF TypeInv, FlagsOK
<1>3. at = "teardown" =>
        /\ <<"teardown", test>> \notin By(global_allocated_blocks)
        /\ suite.tests[test].teardown = None
  <2>1. test \in Nat
    BY TestsOf DEF TypeInv, ProgramOK
  <2>2. at = "teardown" => ~Begun(<<"teardown", test>>)
    BY <1>2, <2>1 DEF Begun
  <2>3. at = "teardown" => Function = suite.tests[test].teardown
    BY DEF Function
  <2> QED BY <1>1, <2>2, <2>3 DEF ChargedInv
<1> QED BY <1>1, <1>2, <1>3, LeaveCharged

LEMMA StepCharged ==
  ASSUME CallsWellFormed, TypeInv, ChargedInv, CheckInv, [Next]_vars
  PROVE  ChargedInv' /\ CheckInv'
<1>1. CASE Calling
  <2>1. global_running_test /\ HeapKept /\ (Continues \/ Stops \/ Skips \/ Dies)
    BY <1>1, CallingStep DEF CallStep, HeapSteps
  <2>2. CASE Continues
    BY <2>1, <2>2, ContinuesCharged
  <2>3. CASE Stops
    BY <2>1, <2>3, FailureCharged DEF Stops
  <2>4. CASE Skips
    BY <2>1, <2>4, FailureCharged DEF Skips
  <2>5. CASE Dies
    <3>1. global_running_test' = FALSE
      BY <1>1, <2>5, CallingStep DEF CallStep, Dies, TypeInv, FlagsOK
    <3>2. at' = "ended" /\ UNCHANGED <<suite, test, status>>
      BY <2>5 DEF Dies
    <3>3. /\ at \in Functions /\ lost \subseteq lost'
          /\ By(global_allocated_blocks') \subseteq By(global_allocated_blocks) \union {<<at, test>>}
      BY <2>1 DEF HeapKept, TypeInv, FlagsOK
    <3> QED BY <3>1, <3>2, <3>3, EndCharged
  <2> QED BY <2>1, <2>2, <2>3, <2>4, <2>5
<1>2. CASE Finish
  <2>1. /\ at' = "ended" /\ UNCHANGED <<suite, test, status, global_allocated_blocks, lost>>
        /\ global_running_test' = global_running_test
    BY <1>2 DEF Finish, heap, flags
  <2>2. global_running_test' = FALSE
    BY <1>2, <2>1 DEF Finish, TypeInv, FlagsOK, Functions
  <2> QED BY <2>1, <2>2, EndCharged
<1>3. CASE UNCHANGED vars
  <2>1. UNCHANGED <<suite, at, test, status, global_running_test, global_allocated_blocks, lost,
                    heap_check_point, check_point>>
    BY <1>3 DEF vars, heap, flags
  <2>2. ASSUME NEW w
        PROVE  Begun(w)' = Begun(w) /\ Answered(w)' = Answered(w) /\ Pardoned(w)' = Pardoned(w)
    BY <2>1 DEF Begun, Answered, Pardoned
  <2>3. ChargedInv'
    BY <2>1, <2>2 DEF ChargedInv, Places
  <2>4. CheckInv'
    BY <2>1 DEF CheckInv, SetupGuarded
  <2> QED BY <2>3, <2>4
<1> QED BY <1>1, <1>2, <1>3, NextCases, ReturnCharged, NoFunctionCharged, BeginCharged

\* Blocks that end the program before its result is returned are charged to a
\* function that was reported bad, to a setup no teardown answers, to a fixture
\* of the group, or to one that freed the block its checkpoint was in.
THEOREM LeaksAreChargedHolds ==
  ASSUME CallsWellFormed
  PROVE  Spec => LeaksAreCharged
<1> DEFINE Inv == TypeInv /\ ChargedInv /\ CheckInv
<1>1. Init => Inv
  <2>1. SUFFICES ASSUME Init PROVE Inv
    OBVIOUS
  <2>2. By(global_allocated_blocks) = {}
    BY <2>1 DEF Init, By
  <2> QED BY <2>1, <2>2, InitTyped DEF Init, ChargedInv, CheckInv
<1>2. Inv /\ [Next]_vars => Inv'
  BY StepTyped, StepCharged
<1>3. ASSUME Inv, at = "finish", NEW i \in DOMAIN global_allocated_blocks
      PROVE  Excused(global_allocated_blocks[i])
  <2>1. global_allocated_blocks[i].by \in By(global_allocated_blocks)
    BY DEF By
  <2>2. /\ global_allocated_blocks[i].by \in Places
        /\ Pardoned(global_allocated_blocks[i].by)
    BY <1>3, <2>1 DEF ChargedInv, Answered
  <2> QED BY <2>2, ExcusedFacts
<1>4. Inv /\ [Next]_vars
      => [at = "finish" /\ code' = EXITED
          => \A i \in DOMAIN global_allocated_blocks : Excused(global_allocated_blocks[i])]_vars
  BY <1>3
<1> QED BY <1>1, <1>2, <1>4, PTL DEF Spec, LeaksAreCharged
===============================================================================
