-------------------------------- MODULE Cmocka --------------------------------
(***************************************************************************)
(* The runner of the drivers' unit tests, _cmocka_run_group_tests of       *)
(* 3rd-party/cmocka/src/cmocka.c, and the operations its functions call.   *)
(*                                                                         *)
(* A suite is a group: its fixtures and tests are functions the runner     *)
(* enters one after another.  What a function does is not fixed: at each   *)
(* point it makes any of the calls in MayCall(name, done), where `done' is *)
(* what it has called so far.  A failing call jumps out of the function    *)
(* (longjmp to global_run_test_env).                                       *)
(*                                                                         *)
(* Functions allocate through test_malloc and free what they allocated     *)
(* once (they are compiled with UNIT_TESTING); addresses are reused.       *)
(***************************************************************************)
EXTENDS MockValues, FiniteSets

CONSTANTS Suites,          \* the test programs, one of which runs
          Symbols,         \* mocked functions
          Parameters,      \* <<function, parameter>> that are checked
          Pointers,        \* the programs' variables that hold blocks
          MaxBlocks,       \* bound: addresses malloc can return
          MayCall(_, _)    \* what a function may call next

None == "none"                     \* a NULL function

\* There is a test to run, and what it runs is there.
ASSUME SuitesAssumption ==
  \A s \in Suites : /\ s.tests # <<>>
                    /\ s.tests \in Seq([setup : STRING, test : STRING \ {None}, teardown : STRING])

ASSUME BlocksAssumption == MaxBlocks \in Nat

head == 0                          \* the head of the list of blocks
Addresses == 1 .. MaxBlocks
NULL == -1                         \* no checkpoint

\* The values of code that are not a number of failures.
RUNS   == -2
EXITED == -1                       \* exit(-1)
KILLED == -3                       \* by a signal

VARIABLES
  suite,                   \* the suite that runs
  at,                      \* where its runner is: which function, or the end
  test,                    \* the index of the test it is about
  global_running_test,
  done,                    \* calls of the function that runs or has just ended
  global_function_result_map, global_function_parameter_map,
  global_call_ordering,
  global_allocated_blocks, \* sequence of blocks, oldest first
  pointer,                 \* address in each of the programs' variables, 0 NULL
  heap_check_point,        \* the checkpoint of the function that runs
  check_point,             \* test_state->check_point, of the test's setup
  global_skip_test,
  global_expecting_assert,
  status,                  \* of each test
  group_error,             \* the group setup failed
  code,                    \* what the program ends with
  skipped,                 \* history: the functions that called skip()
  lost                     \* history: those that freed their checkpoint's block

maps    == <<global_function_result_map, global_function_parameter_map,
             global_call_ordering>>
heap    == <<global_allocated_blocks, pointer>>
runner  == <<at, test, heap_check_point, check_point, status, group_error, code>>
flags   == <<global_skip_test, global_expecting_assert, skipped, lost>>
vars == <<suite, at, test, global_running_test, done, maps, heap,
          heap_check_point, check_point, flags, status, group_error, code>>

Functions == {"group_setup", "setup", "test", "teardown", "group_teardown"}

\* The name of the function the runner is at, None if there is none.
Function ==
  IF at \in {"group_setup", "group_teardown"} THEN suite[at]
  ELSE suite.tests[test][at]

Calls(name) == {c \in MayCall(Function, done) : c.call = name}

\* A call as the programs make it: its operands are what the declarations of
\* the functions say.
WellFormed(op) ==
  /\ op.call \in {"will_return", "expect_check", "expect_function_call"} =>
       op.count \in {WILL_RETURN_ALWAYS, WILL_RETURN_ONCE} \union Nat
  /\ op.call \in {"will_return", "mock"} => op.function \in Symbols
  /\ op.call \in {"expect_check", "check_expected"} => op.parameter \in Parameters
  /\ op.call \in {"malloc", "realloc", "free", "overrun"} => op.pointer \in Pointers
  /\ op.call \in {"mock_assert"} => op.result \in BOOLEAN
  /\ op.call = "return" => op.rc \in Int

-----------------------------------------------------------------------------
(* The list of allocated blocks. *)

Allocated == {global_allocated_blocks[i].address : i \in DOMAIN global_allocated_blocks}

check_point_allocated_blocks ==
  IF global_allocated_blocks = <<>> THEN head
  ELSE Last(global_allocated_blocks).address

\* The checkpoint's own block was freed and nothing was allocated in its place.
Dangling(point) == point \notin {head, NULL} /\ point \notin Allocated

\* The blocks before a checkpoint, itself included, and those after it.
Before(point) ==
  LET last == CHOOSE i \in 0 .. Len(global_allocated_blocks) :
                IF point = head THEN i = 0
                ELSE i > 0 /\ global_allocated_blocks[i].address = point
  IN  SubSeq(global_allocated_blocks, 1, last)

After(point) ==
  SubSeq(global_allocated_blocks, Len(Before(point)) + 1, Len(global_allocated_blocks))

\* free_allocated_blocks stops at the first block with a damaged guard.
Freed(blocks) ==
  LET damaged == {i \in DOMAIN blocks : ~blocks[i].guarded}
  IN  IF damaged = {} THEN <<>>
      ELSE SubSeq(blocks, CHOOSE i \in damaged : \A j \in damaged : i <= j, Len(blocks))

-----------------------------------------------------------------------------
(* Entering and leaving a function: cmocka_run_one_test_or_fixture. *)

NoMaps ==
  /\ global_function_result_map' = [s \in Symbols |-> <<>>]
  /\ global_function_parameter_map' = [p \in Parameters |-> <<>>]
  /\ global_call_ordering' = <<>>

NextTest ==
  IF test < Len(suite.tests) THEN at' = "setup" /\ test' = test + 1
  ELSE at' = "group_teardown" /\ test' = test

Becomes(verdict) == status' = [status EXCEPT ![test] = verdict]

\* Wrong variant: the flag of one skipped test is still set for the next.
Unskipped_never(rc, skip) == skip

\* The flag of skip() after a test function: a failure consumes it.
Unskipped(rc, skip) == skip /\ rc = 0

\* A setup that fails ends the test without its teardown; the flag skip() sets
\* is read, and reset, by the next test function that fails.
cmocka_run_one_tests(rc, skip) ==
  \/ /\ at = "setup" /\ rc = 0
     /\ at' = "test" /\ global_skip_test' = skip /\ UNCHANGED <<test, status>>
  \/ /\ at = "setup" /\ rc # 0
     /\ Becomes("ERROR") /\ NextTest /\ global_skip_test' = skip
  \/ /\ at = "test"
     /\ Becomes(IF rc = 0 THEN "PASSED" ELSE IF skip THEN "SKIPPED" ELSE "FAILED")
     /\ at' = "teardown" /\ global_skip_test' = Unskipped(rc, skip) /\ UNCHANGED test
  \/ /\ at = "teardown"
     /\ IF rc = 0 THEN UNCHANGED status ELSE Becomes("ERROR")
     /\ NextTest /\ global_skip_test' = skip

\* What the runner does with the result of the group's fixtures: the tests run
\* only after a good setup, the teardown's result is not counted.
cmocka_run_group_fixture(rc, skip) ==
  /\ global_skip_test' = skip
  /\ UNCHANGED <<test, status>>
  /\ \/ at = "group_setup" /\ at' = IF rc = 0 THEN "setup" ELSE "group_teardown"
     \/ at = "group_teardown" /\ at' = "finish"

Proceeds(rc, skip) ==
  /\ group_error' = (group_error \/ (at = "group_setup" /\ rc # 0))
  /\ cmocka_run_one_tests(rc, skip) \/ cmocka_run_group_fixture(rc, skip)
  /\ check_point' = IF at' \in {"test", "teardown"} THEN check_point ELSE NULL
  /\ UNCHANGED <<suite, code>>

\* The end of the function that runs, with its result (teardown_testing).
Leave(rc, skip) ==
  /\ Proceeds(rc, skip)
  /\ NoMaps
  /\ global_running_test' = FALSE /\ heap_check_point' = NULL

\* exit_test: the jump to the end of the function, whose result is -1.
exit_test(skip) == Leave(-1, skip)

\* No function here: nothing runs and the result is 0.
NoFunction ==
  /\ at \in Functions /\ Function = None
  /\ Proceeds(0, global_skip_test)
  /\ done' = <<>>
  /\ UNCHANGED <<global_running_test, maps, heap, heap_check_point,
                 global_expecting_assert, skipped, lost>>

\* Wrong variant: a teardown is checked against the blocks it finds.
CheckPoint_now == check_point_allocated_blocks

\* A group's fixtures are checked against the group's checkpoint, which is the
\* head; a test against the blocks it finds; its teardown against those its
\* setup found, if it has one.
CheckPoint ==
  IF at \in {"group_setup", "group_teardown"} THEN head
  ELSE IF at = "teardown" /\ check_point # NULL THEN check_point
  ELSE check_point_allocated_blocks

cmocka_run_one_test_or_fixture ==
  /\ at \in Functions /\ Function # None /\ ~global_running_test
  /\ global_running_test' = TRUE /\ done' = <<>>
  /\ heap_check_point' = CheckPoint
  /\ check_point' = IF at = "setup" THEN check_point_allocated_blocks ELSE check_point
  /\ UNCHANGED <<suite, at, test, maps, heap, flags, status, group_error, code>>

\* The functions whose blocks are checked when they return.
Checked == at \in {"test", "teardown", "group_teardown"}

LeftoverValues ==
  \/ check_for_leftover_values(global_function_result_map)
  \/ check_for_leftover_values(global_function_parameter_map)
  \/ check_for_leftover_values_list(global_call_ordering)

\* A test function has no result: one that returns is good.
Result(op) == IF at = "test" THEN 0 ELSE op.rc

\* fail_if_leftover_values, on the way out of a function that returned rc.
fail_if_leftover_values(rc) ==
  Leave(IF LeftoverValues THEN -1 ELSE rc, global_skip_test)

\* The program's variables of blocks that were freed are not used again.
HeapIs(blocks) ==
  /\ global_allocated_blocks' = blocks
  /\ LET kept == {blocks[i].address : i \in DOMAIN blocks}
     IN  pointer' = [p \in Pointers |-> IF pointer[p] \in kept THEN pointer[p] ELSE 0]

fail_if_blocks_allocated ==
  /\ Checked /\ ~Dangling(heap_check_point) /\ After(heap_check_point) # <<>>
  /\ HeapIs(Before(heap_check_point) \o Freed(After(heap_check_point)))
  /\ exit_test(global_skip_test)

\* The checkpoint is inside freed memory: following its link is undefined.  The
\* process gets SIGSEGV, which fails the function, or no block is seen.
ReadsFreed ==
  /\ Checked /\ Dangling(heap_check_point)
  /\ exit_test(global_skip_test) \/ \E op \in Calls("return") : fail_if_leftover_values(Result(op))
  /\ UNCHANGED heap

Return ==
  /\ global_running_test
  /\ \/ Calls("return") # {} /\ (fail_if_blocks_allocated \/ ReadsFreed)
     \/ /\ Checked => ~Dangling(heap_check_point) /\ After(heap_check_point) = <<>>
        /\ \E op \in Calls("return") : fail_if_leftover_values(Result(op))
        /\ UNCHANGED heap
  /\ UNCHANGED <<done, global_expecting_assert, skipped, lost>>

-----------------------------------------------------------------------------
(* The calls of a function. *)

\* The call is made and the function goes on.
Goes(op) ==
  /\ done' = Append(done, op)
  /\ UNCHANGED <<suite, runner, global_running_test, global_skip_test,
                 global_expecting_assert, skipped>>

\* The call fails the function.
Fails(op) ==
  /\ done' = Append(done, op)
  /\ exit_test(global_skip_test)
  /\ UNCHANGED <<global_expecting_assert, skipped>>

Call(name) == IF global_running_test THEN Calls(name) ELSE {}

_will_return ==
  \E op \in Call("will_return") :
    /\ UNCHANGED <<heap, lost>>
    /\ IF op.count # 0
       THEN /\ global_function_result_map' =
                 add_symbol_value(global_function_result_map, op.function, op.value, op.count)
            /\ UNCHANGED <<global_function_parameter_map, global_call_ordering>>
            /\ Goes(op)
       ELSE Fails(op)

\* A mock takes its next value; the test checks what it gets from it.
_mock ==
  \E op \in Call("mock") :
    LET next == get_symbol_value(global_function_result_map, op.function) IN
    /\ UNCHANGED <<heap, lost>>
    /\ IF next.found /\ Holds(op.check, next.value)
       THEN /\ global_function_result_map' = next.map
            /\ UNCHANGED <<global_function_parameter_map, global_call_ordering>>
            /\ Goes(op)
       ELSE Fails(op)

_expect_check ==
  \E op \in Call("expect_check") :
    /\ global_function_parameter_map' = add_symbol_value(global_function_parameter_map,
                                                         op.parameter, op.check, op.count)
    /\ Goes(op)
    /\ UNCHANGED <<global_function_result_map, global_call_ordering, heap, lost>>

_check_expected ==
  \E op \in Call("check_expected") :
    LET next == get_symbol_value(global_function_parameter_map, op.parameter) IN
    /\ UNCHANGED <<heap, lost>>
    /\ IF next.found /\ Holds(next.value, op.value)
       THEN /\ global_function_parameter_map' = next.map
            /\ UNCHANGED <<global_function_result_map, global_call_ordering>>
            /\ Goes(op)
       ELSE Fails(op)

_expect_function_call ==
  \E op \in Call("expect_function_call") :
    /\ UNCHANGED <<heap, lost>>
    /\ IF op.count # 0
       THEN /\ global_call_ordering' =
                 list_add_value(global_call_ordering, op.function, op.count)
            /\ UNCHANGED <<global_function_result_map, global_function_parameter_map>>
            /\ Goes(op)
       ELSE Fails(op)

_function_called ==
  \E op \in Call("function_called") :
    /\ UNCHANGED <<heap, lost>>
    /\ \/ \E i \in Expected(global_call_ordering, op.function) :
            /\ global_call_ordering' = Used(global_call_ordering, i)
            /\ UNCHANGED <<global_function_result_map, global_function_parameter_map>>
            /\ Goes(op)
       \/ Expected(global_call_ordering, op.function) = {} /\ Fails(op)

\* An assert_...() on a value the test computed.
_assert ==
  \E op \in Call("assert") :
    /\ UNCHANGED <<heap, lost>>
    /\ IF Holds(op.check, op.value) THEN Goes(op) /\ UNCHANGED maps ELSE Fails(op)

_fail == \E op \in Call("fail") : Fails(op) /\ UNCHANGED <<heap, lost>>

\* SIGSEGV, SIGFPE and the like in the function.
exception_handler ==
  \E op \in Call("exception") : Fails(op) /\ UNCHANGED <<heap, lost>>

_skip ==
  \E op \in Call("skip") :
    /\ done' = Append(done, op)
    /\ exit_test(TRUE)
    /\ skipped' = skipped \union {<<at, test>>}
    /\ UNCHANGED <<global_expecting_assert, heap, lost>>

\* expect_assert_failure(f()): f fails an assertion, as it should; or returns,
\* which fails the test; or fails the test itself and leaves the flag set.
expect_assert_failure ==
  \E op \in Call("expect_assert_failure") :
    /\ done' = Append(done, op)
    /\ global_expecting_assert' = (op.outcome = "fails")
    /\ IF op.outcome = "asserts"
       THEN UNCHANGED <<suite, runner, global_running_test, global_skip_test, maps>>
       ELSE exit_test(global_skip_test)
    /\ UNCHANGED <<heap, skipped, lost>>

\* An assert() of the code under test.  With a flag left behind it jumps into a
\* function that has ended: the function fails, or the process dies.
mock_assert ==
  \E op \in Call("mock_assert") :
    /\ UNCHANGED <<heap, lost>>
    /\ \/ op.result /\ Goes(op) /\ UNCHANGED maps
       \/ ~op.result /\ Fails(op)
       \/ /\ ~op.result /\ global_expecting_assert
          /\ at' = "ended" /\ code' = KILLED
          /\ done' = <<>> /\ global_running_test' = FALSE
          /\ NoMaps
          /\ UNCHANGED <<suite, test, heap_check_point, check_point, global_skip_test,
                         global_expecting_assert, skipped, status, group_error>>

NewBlock(address) ==
  [address |-> address, guarded |-> TRUE, by |-> <<at, test>>]

_test_malloc ==
  \E op \in Call("malloc"), address \in Addresses \ Allocated :
    /\ global_allocated_blocks' = Append(global_allocated_blocks, NewBlock(address))
    /\ pointer' = [pointer EXCEPT ![op.pointer] = address]
    /\ Goes(op) /\ UNCHANGED <<maps, lost>>

Intact(address) ==
  \A i \in DOMAIN global_allocated_blocks :
    global_allocated_blocks[i].address = address => global_allocated_blocks[i].guarded

\* list_remove of the node of this address, if there is one.
Without(blocks, address) ==
  LET node == {i \in DOMAIN blocks : blocks[i].address = address}
  IN  IF node = {} THEN blocks ELSE RemoveAt(blocks, CHOOSE i \in node : TRUE)

\* The functions whose checkpoint is the block at this address.
Loses(address) ==
  lost' = lost \union {w \in {<<at, test>>} : address = heap_check_point /\ address # head}
               \union {w \in {<<"teardown", test>>} : address = check_point /\ address # head}

\* A block whose guards were overwritten fails the test and stays.
Frees(op) ==
    LET address == pointer[op.pointer] IN
    IF Intact(address)
    THEN /\ HeapIs(Without(global_allocated_blocks, address))
         /\ Loses(address)
         /\ Goes(op) /\ UNCHANGED maps
    ELSE Fails(op) /\ UNCHANGED <<heap, lost>>

_test_free == \E op \in Call("free") : Frees(op)

\* A size of 0 frees a block.
_test_realloc_set0 ==
  \E op \in Call("realloc") : op.size = 0 /\ pointer[op.pointer] # 0 /\ Frees(op)

\* Else there is a new block first, then the old one is freed.
_test_realloc ==
  \E op \in Call("realloc"), address \in Addresses \ Allocated :
    /\ op.size # 0 \/ pointer[op.pointer] = 0
    /\ LET old    == pointer[op.pointer]
           blocks == Append(global_allocated_blocks, NewBlock(address))
       IN  IF Intact(old)
           THEN /\ global_allocated_blocks' = Without(blocks, old)
                /\ pointer' = [p \in Pointers |->
                                 IF p = op.pointer THEN address
                                 ELSE IF pointer[p] = old THEN 0 ELSE pointer[p]]
                /\ Loses(old)
                /\ Goes(op) /\ UNCHANGED maps
           ELSE global_allocated_blocks' = blocks /\ UNCHANGED <<pointer, lost>> /\ Fails(op)

\* The function writes behind the end of a block.
Overrun ==
  \E op \in Call("overrun"), i \in DOMAIN global_allocated_blocks :
    /\ global_allocated_blocks[i].address = pointer[op.pointer]
    /\ global_allocated_blocks' = [global_allocated_blocks EXCEPT ![i].guarded = FALSE]
    /\ Goes(op) /\ UNCHANGED <<maps, pointer, lost>>

-----------------------------------------------------------------------------
(* The group: _cmocka_run_group_tests. *)

Failed == {i \in DOMAIN status : status[i] \in {"FAILED", "ERROR"}}

\* After the report: blocks that are still there end the program, else the
\* failures and errors are counted.
Finish ==
  /\ at = "finish" /\ at' = "ended"
  /\ code' = IF global_allocated_blocks # <<>> THEN EXITED
             ELSE Cardinality(Failed) + IF group_error THEN 1 ELSE 0
  /\ done' = <<>>
  /\ UNCHANGED <<suite, test, global_running_test, maps, heap,
                 heap_check_point, check_point, flags, status, group_error>>

Ended == at = "ended" /\ UNCHANGED vars

Init ==
  /\ suite \in Suites
  /\ at = "group_setup" /\ test = 1
  /\ global_running_test = FALSE /\ done = <<>>
  /\ global_function_result_map = [s \in Symbols |-> <<>>]
  /\ global_function_parameter_map = [p \in Parameters |-> <<>>]
  /\ global_call_ordering = <<>>
  /\ global_allocated_blocks = <<>> /\ pointer = [p \in Pointers |-> 0]
  /\ heap_check_point = NULL /\ check_point = NULL
  /\ global_skip_test = FALSE /\ global_expecting_assert = FALSE /\ skipped = {} /\ lost = {}
  /\ status = [i \in DOMAIN suite.tests |-> "NOT_STARTED"]
  /\ group_error = FALSE /\ code = RUNS

Next ==
  \/ NoFunction
  \/ cmocka_run_one_test_or_fixture
  \/ Return
  \/ _will_return \/ _mock
  \/ _expect_check \/ _check_expected
  \/ _expect_function_call \/ _function_called
  \/ _assert \/ _fail \/ exception_handler \/ _skip
  \/ expect_assert_failure \/ mock_assert
  \/ _test_malloc \/ _test_free \/ _test_realloc_set0 \/ _test_realloc \/ Overrun
  \/ Finish
  \/ Ended

Spec == Init /\ [][Next]_vars

-----------------------------------------------------------------------------
(* Properties. *)

Verdict == {"NOT_STARTED", "PASSED", "FAILED", "ERROR", "SKIPPED"}

Lists == {global_function_result_map[s] : s \in Symbols}
           \union {global_function_parameter_map[p] : p \in Parameters}
           \union {global_call_ordering}

\* Type invariant.  The counts are what is left of a number of uses, or one of
\* the two constants; no two blocks share an address; the lists are empty
\* whenever no function runs.
CmockaTypeOK ==
  /\ suite \in Suites
  /\ at \in Functions \union {"finish", "ended"} /\ test \in DOMAIN suite.tests
  /\ global_running_test \in BOOLEAN
  /\ \A list \in Lists :
       /\ \A i \in DOMAIN list :
            list[i].refcount \in {WILL_RETURN_ALWAYS, WILL_RETURN_ONCE} \union Nat
       /\ ~global_running_test => list = <<>>
  /\ Cardinality(Allocated) = Len(global_allocated_blocks) /\ Allocated \subseteq Addresses
  /\ \A p \in Pointers : pointer[p] \in {0} \union Allocated
  /\ {heap_check_point, check_point} \subseteq Addresses \union {head, NULL}
  /\ {global_skip_test, global_expecting_assert, group_error} \subseteq BOOLEAN
  /\ {status[i] : i \in DOMAIN status} \subseteq Verdict
  /\ code \in {RUNS, EXITED, KILLED} \union Nat
  /\ \A w \in skipped \union lost : w \in Functions \X DOMAIN suite.tests

\* The calls of one kind in a sequence of calls.
Of(calls, name) == {i \in DOMAIN calls : calls[i].call = name}

\* A use is what a declaration asks for.
Meets(declared, use) ==
  CASE declared.call = "will_return"          -> Holds(use.check, declared.value)
    [] declared.call = "expect_check"         -> Holds(declared.check, use.value)
    [] declared.call = "expect_function_call" -> use.function = declared.function

\* Every use is charged to an earlier declaration that it meets, and every
\* declaration is used as often as it says.
Charges(calls, declared, used, charge) ==
  LET To(j) == {k \in used : charge[k] = j} IN
  /\ \A k \in used : charge[k] < k /\ Meets(calls[charge[k]], calls[k])
  /\ \A j \in declared :
       /\ calls[j].count > 0 => Cardinality(To(j)) = calls[j].count
       /\ calls[j].count = WILL_RETURN_ALWAYS => To(j) # {}

\* The values of one symbol are used in the order of their declarations.  Only
\* the last can be one without a fixed number: those behind it would never be
\* reached.
Fits(calls, declared, used) ==
  \E charge \in [used -> declared] :
    /\ Charges(calls, declared, used, charge)
    /\ \A k, l \in used : k < l => charge[k] <= charge[l]
    /\ \A j \in declared : calls[j].count < 0 => \A i \in declared : i <= j

ReturnsKept(calls) ==
  \A f \in Symbols :
    Fits(calls, {i \in Of(calls, "will_return") : calls[i].function = f},
                {i \in Of(calls, "mock") : calls[i].function = f})

ParametersKept(calls) ==
  \A p \in Parameters :
    Fits(calls, {i \in Of(calls, "expect_check") : calls[i].parameter = p},
                {i \in Of(calls, "check_expected") : calls[i].parameter = p})

\* The calls of the mocks come in the order declared: whatever was declared
\* before the one a call is charged to is finished, or may go on for ever and
\* has begun if it must; and it is not for the same mock.
OrderKept(calls) ==
  LET expect == Of(calls, "expect_function_call")
      made   == Of(calls, "function_called")
  IN  \E charge \in [made -> expect] :
        /\ Charges(calls, expect, made, charge)
        /\ \A k \in made : \A j \in {i \in expect : i < charge[k]} :
             IF calls[j].count > 0 THEN \A l \in made : charge[l] = j => l < k
             ELSE /\ calls[j].function # calls[k].function
                  /\ calls[j].count = WILL_RETURN_ALWAYS => \E l \in made : charge[l] = j /\ l < k

\* No call that fails its function by itself.
Clean(op) ==
  CASE op.call = "assert" -> Holds(op.check, op.value)
    [] op.call = "mock_assert" -> op.result
    [] op.call = "expect_assert_failure" -> op.outcome = "asserts"
    [] op.call \in {"will_return", "expect_check", "expect_function_call"} -> op.count # 0
    [] OTHER -> op.call \notin {"fail", "exception", "skip"}

Kept(calls) ==
  /\ \A i \in DOMAIN calls : Clean(calls[i])
  /\ ReturnsKept(calls) /\ ParametersKept(calls) /\ OrderKept(calls)

HeapCalls == {"malloc", "free", "realloc", "overrun"}

TestEnds == at = "test" /\ global_running_test /\ at' = "teardown"

\* A test passes only if it got from its mocks every value it declared, in the
\* order and as often as declared, its parameters met every check it declared,
\* and the mocks were called in the order it declared.
PassedMeansKept == [][TestEnds /\ status'[test] = "PASSED" => Kept(done')]_vars

\* And no test is failed for nothing: one that leaves the heap alone and does
\* not pass broke one of its declarations, or asked for it.
NoFalseFailure ==
  [][TestEnds /\ status'[test] # "PASSED" /\ {done'[i].call : i \in DOMAIN done'} \intersect HeapCalls = {}
     => ~Kept(done')]_vars

\* The flag of skip() is read at the end of a test that fails for any reason.
\* A test is still reported skipped only if it asked for it, or a fixture that
\* ran before it did: never because another test was skipped.
SkipIsAsked ==
  [][TestEnds /\ status'[test] = "SKIPPED"
     => \E w \in skipped' : w = <<"test", test>> \/ w[1] # "test"]_vars

\* A block the program still holds at the end although the function that
\* allocated it was checked and reported good.
Excused(b) ==
  LET i == b.by[2] IN
  CASE b.by[1] = "test" -> status[i] # "PASSED" \/ b.by \in lost
    [] b.by[1] = "setup" -> \/ status[i] = "ERROR" \/ suite.tests[i].teardown = None
                            \/ <<"teardown", i>> \in lost
    [] b.by[1] = "teardown" -> status[i] = "ERROR" \/ b.by \in lost
    [] OTHER -> TRUE

\* A leak is charged to the test it happened in: when blocks left over end the
\* program before its result is returned, each was allocated by a function that
\* was reported bad, by a setup no teardown answers, by a fixture of the group,
\* or in a test that freed the block its checkpoint was in.
LeaksAreCharged ==
  [][at = "finish" /\ code' = EXITED
     => \A i \in DOMAIN global_allocated_blocks : Excused(global_allocated_blocks[i])]_vars

\* The test programs of the repository whose calls are fixed end with the
\* result they should: main of test_temp.c returns 0.
KnownResults == at = "ended" /\ suite.result # RUNS => code = suite.result
===============================================================================
