------------------------------ MODULE UnitTests ------------------------------
(***************************************************************************)
(* The test programs of the repository: test_temp.c, which tests the       *)
(* arithmetic of the drivers, and those of cmocka's own tests and examples *)
(* that settle how its lists and its runner behave.                        *)
(*                                                                         *)
(* The drivers are tested as copies of src/ with the queues and the sensor *)
(* cut out: readTemperature stores 20 and returns 0, and lightSensorLux is *)
(* given the two channels.  Allocations are assumed to succeed.            *)
(***************************************************************************)
EXTENDS Cmocka, SensorMath

Op(call) == [call |-> call]

\* The calls that fixtures and tests consist of.
Returns(rc) == [call |-> "return", rc |-> rc]
WillReturn(f, v, n) == [call |-> "will_return", function |-> f, value |-> v, count |-> n]
Mock(f, check) == [call |-> "mock", function |-> f, check |-> check]
ExpectCheck(p, check, n) ==
  [call |-> "expect_check", parameter |-> p, check |-> check, count |-> n]
CheckExpected(p, v) == [call |-> "check_expected", parameter |-> p, value |-> v]
ExpectCall(f, n) == [call |-> "expect_function_call", function |-> f, count |-> n]
Called(f) == [call |-> "function_called", function |-> f]
Asserts(v, check) == [call |-> "assert", value |-> v, check |-> check]
Malloc(p) == [call |-> "malloc", pointer |-> p]
Realloc(p, size) == [call |-> "realloc", pointer |-> p, size |-> size]
Free(p) == [call |-> "free", pointer |-> p]
MockAssert(result) == [call |-> "mock_assert", result |-> result]
ExpectAssertFailure(outcome) == [call |-> "expect_assert_failure", outcome |-> outcome]

\* What they expect of a value.
Equals(v) == [is |-> "value", value |-> v, not |-> FALSE]
AnyValue == [is |-> "any"]
IsTrue == [is |-> "value", value |-> 0, not |-> TRUE]
InSet(set, inverted) == [is |-> "set", set |-> set, not |-> inverted]
InRange(min, max, inverted) == [is |-> "range", min |-> min, max |-> max, not |-> inverted]
IsText == [is |-> "string", string |-> "text", not |-> FALSE]
IsMemory(bytes, size, inverted) ==
  [is |-> "memory", memory |-> bytes, size |-> size, not |-> inverted]
Code(rlen) == [is |-> "code", rlen |-> rlen]

Plain(name) == [setup |-> None, test |-> name, teardown |-> None]

Suite(tests, result) ==
  [group_setup |-> None, tests |-> tests, group_teardown |-> None, result |-> result]

-----------------------------------------------------------------------------
(* test_temp.c *)

\* readTemperature of the copy.
readTemperature_copy == [status |-> 0, temp |-> 20]

\* currentTemperature(&temp, units) of the copy.
currentTemperature_copy(units) ==
  [ret |-> readTemperature_copy.status, temp |-> InUnit(units, readTemperature_copy.temp)]

TestUnit(units, temp) ==
  <<Asserts(currentTemperature_copy(units).ret, Equals(0)),
    Asserts(currentTemperature_copy(units).temp, Equals(temp))>>

TestConversion(word, temp) == <<Asserts(tempConversion(Signed(word)), Equals(temp))>>

test_temp ==
  Suite(<<Plain("test_currentTemperature_celcius"), Plain("test_currentTemperature_Fah"),
          Plain("test_currentTemperature_kelvin"), Plain("tempConversionPositive"),
          Plain("tempConversion0"), Plain("tempConversionNegative"),
          Plain("test_lightSensorLux1")>>, 0)

-----------------------------------------------------------------------------
(* cmocka/tests and cmocka/example *)

test_ordering ==
  Suite(<<Plain("test_does_succeed_for_expected"),
          Plain("test_does_succeed_for_multiple_calls"),
          Plain("test_ordering_does_ignore_no_calls"),
          Plain("test_ordering_does_ignore_calls"),
          Plain("test_ordering_does_expect_at_least_one_call"),
          Plain("test_ordering_does_work_across_different_functions"),
          Plain("test_ordering_ignores_out_of_order_properly")>>, 0)

test_ordering_fail ==
  Suite(<<Plain("test_does_fail_for_unexpected_call"),
          Plain("test_does_fail_for_unmade_expected_call"),
          Plain("test_does_fail_for_unmade_expected_call"),
          Plain("test_ordering_fails_out_of_order"),
          Plain("test_ordering_fails_out_of_order_for_at_least_once_calls"),
          Plain("test_fails_out_of_order_if_no_calls_found_on_any"),
          Plain("test_fails_if_zero_count_used")>>, 7)

test_alloc ==
  Suite(<<Plain("torture_test_malloc"), Plain("torture_test_realloc"),
          Plain("torture_test_realloc_set0")>>, 0)

\* The second setup is good: its test and its teardown run, the first's do not.
test_setup_fail ==
  Suite(<<[setup |-> "setup_fail", test |-> "int_test_ignored", teardown |-> "teardown"],
          [setup |-> "setup_ok", test |-> "int_test_success", teardown |-> "teardown"]>>, 1)

test_group_setup_fail ==
  [Suite(<<Plain("test_true"), Plain("test_false")>>, 1)
     EXCEPT !.group_setup = "group_setup_failing"]

test_skip == Suite(<<Plain("test_check_skip")>>, 0)

\* increment_value(NULL) fails an assertion, decrement_value(NULL) fails none.
assert_module_test ==
  Suite(<<Plain("increment_value_fail"), Plain("increment_value_assert"),
          Plain("decrement_value_fail")>>, 2)

-----------------------------------------------------------------------------
\* What each of these functions calls, up to its return.
Script(name) ==
  CASE name = "test_currentTemperature_celcius" -> TestUnit(UNIT_CELCIUS, 20)
    [] name = "test_currentTemperature_Fah"     -> TestUnit(UNIT_FAHRENHEIT, 68)
    [] name = "test_currentTemperature_kelvin"  -> TestUnit(UNIT_KELVIN, 293)
    [] name = "tempConversionPositive" -> TestConversion(5888, 23)
    [] name = "tempConversion0"        -> TestConversion(0, 0)
    [] name = "tempConversionNegative" -> TestConversion(65280, -1)
    [] name = "test_lightSensorLux1"   -> <<>>      \* computes, asserts nothing
    [] name = "test_does_succeed_for_expected" ->
         <<ExpectCall("a", 1), ExpectCall("a", 1), Called("a"), Called("a")>>
    [] name = "test_does_succeed_for_multiple_calls" ->
         <<ExpectCall("a", 1), ExpectCall("a", 2), ExpectCall("a", 1),
           Called("a"), Called("a"), Called("a"), Called("a")>>
    [] name = "test_ordering_does_ignore_calls" ->
         <<ExpectCall("a", WILL_RETURN_ONCE), Called("a"), Called("a"), Called("a")>>
    [] name = "test_ordering_does_ignore_no_calls" -> <<ExpectCall("a", WILL_RETURN_ONCE)>>
    [] name = "test_ordering_does_expect_at_least_one_call" ->
         <<ExpectCall("a", WILL_RETURN_ALWAYS), Called("a"), Called("a"), Called("a")>>
    [] name = "test_ordering_does_work_across_different_functions" ->
         <<ExpectCall("a", 1), ExpectCall("b", 1), ExpectCall("a", 1),
           Called("a"), Called("b"), Called("a")>>
    [] name = "test_ordering_ignores_out_of_order_properly" ->
         <<ExpectCall("a", WILL_RETURN_ONCE), ExpectCall("b", WILL_RETURN_ONCE),
           ExpectCall("c", 2), Called("c"), Called("b"), Called("c")>>
    [] name = "test_does_fail_for_unexpected_call" ->
         <<ExpectCall("a", 1), ExpectCall("a", 1), Called("a"), Called("a"), Called("a")>>
    [] name = "test_does_fail_for_unmade_expected_call" ->
         <<ExpectCall("a", 1), ExpectCall("a", 1), Called("a")>>
    [] name = "test_ordering_fails_out_of_order" ->
         <<ExpectCall("a", 1), ExpectCall("b", 1), ExpectCall("a", 1), Called("b")>>
    [] name = "test_ordering_fails_out_of_order_for_at_least_once_calls" ->
         <<ExpectCall("a", WILL_RETURN_ALWAYS), ExpectCall("b", WILL_RETURN_ONCE),
           Called("b"), Called("c")>>
    [] name = "test_fails_out_of_order_if_no_calls_found_on_any" ->
         <<ExpectCall("a", WILL_RETURN_ALWAYS), ExpectCall("b", WILL_RETURN_ONCE),
           Called("a"), Called("c")>>
    [] name = "test_fails_if_zero_count_used" -> <<ExpectCall("a", 0), Called("a")>>
    [] name = "torture_test_malloc"  -> <<Malloc("p"), Asserts("text", IsText), Free("p")>>
    [] name = "torture_test_realloc" ->
         <<Malloc("p"), Realloc("p", 20), Asserts("text", IsText), Free("p")>>
    [] name = "torture_test_realloc_set0" -> <<Malloc("p"), Realloc("p", 0)>>
    [] name = "setup_fail"       -> <<Returns(-1)>>
    [] name = "setup_ok"         -> <<Malloc("p")>>
    [] name = "int_test_ignored" -> <<Op("fail")>>
    [] name = "int_test_success" -> <<Asserts(42, Equals(42))>>
    [] name = "teardown"         -> <<Free("p")>>
    [] name = "group_setup_failing" -> <<Returns(1)>>
    [] name = "test_true"        -> <<Asserts(1, IsTrue)>>
    [] name = "test_false"       -> <<Asserts(1, IsTrue)>>
    [] name = "test_check_skip"  -> <<Op("skip")>>
    [] name = "increment_value_fail"   -> <<MockAssert(FALSE)>>
    [] name = "increment_value_assert" -> <<ExpectAssertFailure("asserts")>>
    [] name = "decrement_value_fail"   -> <<ExpectAssertFailure("returns")>>
    [] OTHER -> <<>>

\* The next call of a function with a script.
Next_in(script, calls) ==
  IF Len(calls) < Len(script) THEN {script[Len(calls) + 1]} ELSE {Returns(0)}

=============================================================================
