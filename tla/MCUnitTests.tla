----------------------------- MODULE MCUnitTests -----------------------------
(***************************************************************************)
(* The test programs as TLC runs them: those with a known result, and      *)
(* programs whose tests and fixtures make any sequence of calls of one     *)
(* family, up to a bound.                                                  *)
(***************************************************************************)
EXTENDS UnitTests

MaxCalls == 6          \* bound: calls of a function of the families below
MaxFixtureCalls == 3

\* Families of functions: each does whatever its set of calls allows.
ReturnCalls ==
  {WillReturn("a", 1, 1), WillReturn("a", 2, 2), WillReturn("a", 1, WILL_RETURN_ALWAYS),
   WillReturn("a", 2, WILL_RETURN_ONCE), Mock("a", Equals(1)), Mock("a", AnyValue)}

OrderCalls ==
  {ExpectCall("a", 1), ExpectCall("a", WILL_RETURN_ALWAYS), ExpectCall("a", WILL_RETURN_ONCE),
   ExpectCall("b", 1), ExpectCall("b", WILL_RETURN_ONCE), Called("a"), Called("b")}

ParameterCalls ==
  {ExpectCheck(<<"f", "p">>, InRange(0, 5, FALSE), 1), ExpectCheck(<<"f", "p">>, InSet({-1, 7}, FALSE), 2),
   ExpectCheck(<<"f", "q">>, AnyValue, WILL_RETURN_ALWAYS), ExpectCheck(<<"f", "p">>, AnyValue, 0),
   CheckExpected(<<"f", "p">>, 3), CheckExpected(<<"f", "p">>, -1), CheckExpected(<<"f", "q">>, 7)}

AssertCalls ==
  {Asserts(-1, InRange(0, 5, b)) : b \in BOOLEAN} \union
  {Asserts(65535, InSet({-1}, b)) : b \in BOOLEAN} \union
  {Asserts(v, Code(rlen)) : v \in {-1, 0, 254, 255, 32767}, rlen \in {1, 2}} \union
  {ExpectAssertFailure(o) : o \in {"asserts", "returns", "fails"}} \union
  {MockAssert(b) : b \in BOOLEAN} \union {Op("exception")}

AreaCalls == {Asserts(<<1, 2, 3>>, IsMemory(<<1, 2, 4>>, n, b)) : n \in {2, 3}, b \in BOOLEAN}

HeapOps ==
  {Malloc("p"), Malloc("q"), Free("p"), Free("q"), Realloc("p", 8),
   [call |-> "overrun", pointer |-> "p"], Op("fail"), Op("skip")}

FixtureCalls == {Malloc("p"), Free("p"), Op("skip"), Returns(1)}

Families == [returns |-> ReturnCalls, order |-> OrderCalls, parameters |-> ParameterCalls,
             asserts |-> AssertCalls, areas |-> AreaCalls, heaps |-> HeapOps,
             fixtures |-> FixtureCalls]

LimitOf(name) == IF name \in {"asserts", "areas", "heaps", "fixtures"} THEN MaxFixtureCalls ELSE MaxCalls

MCMayCall(name, calls) ==
  IF name \in DOMAIN Families
  THEN {Returns(0)} \union IF Len(calls) < LimitOf(name) THEN Families[name] ELSE {}
  ELSE Next_in(Script(name), calls)

MCParameters == {<<"f", "p">>, <<"f", "q">>}

Bracketed(name) == [setup |-> "fixtures", test |-> name, teardown |-> "fixtures"]

Free_to_call(tests) == Suite(tests, RUNS)

MCSuites ==
  {test_temp, test_ordering, test_ordering_fail, test_alloc, test_setup_fail,
   test_group_setup_fail, test_skip, assert_module_test,
   Free_to_call(<<Plain("returns")>>), Free_to_call(<<Plain("order")>>), Free_to_call(<<Plain("parameters")>>),
   Free_to_call(<<Plain("asserts"), Plain("areas"), Plain("asserts")>>),
   Free_to_call(<<Bracketed("heaps"), Plain("heaps")>>),
   [Free_to_call(<<Plain("heaps")>>) EXCEPT !.group_setup = "fixtures", !.group_teardown = "fixtures"]}

\* Every call of these functions is one the programs could make.
ASSUME CallsAssumption ==
  /\ \A name \in DOMAIN Families : \A op \in Families[name] : WellFormed(op)
  /\ \A suite_ \in MCSuites : \A i \in DOMAIN suite_.tests :
       \A name \in {suite_.tests[i].setup, suite_.tests[i].test, suite_.tests[i].teardown,
                    suite_.group_setup, suite_.group_teardown} :
         \A k \in DOMAIN Script(name) : WellFormed(Script(name)[k])
=============================================================================
