------------------------------ MODULE MockValues ------------------------------
(***************************************************************************)
(* What the unit tests of the drivers record and compare:                  *)
(* 3rd-party/cmocka/src/cmocka.c keeps the values its mocks return, the    *)
(* checks of their parameters and the expected order of their calls in     *)
(* lists of values, each with a count of the uses it still allows.         *)
(*                                                                         *)
(* A linked list is a sequence.  The map of symbols is a function from the *)
(* symbols to their lists, in which the empty list means "no entry"; the   *)
(* two-level map of a function's parameters has <<function, parameter>>    *)
(* as its symbols.                                                         *)
(***************************************************************************)
EXTENDS Integers, SequencesExt

WILL_RETURN_ALWAYS == -1      \* for ever, but at least once
WILL_RETURN_ONCE   == -2      \* for ever, if it is used at all

ListNode(value, refcount) == [value |-> value, refcount |-> refcount]

list_add_value(list, value, refcount) == Append(list, ListNode(value, refcount))

add_symbol_value(map, symbol, value, refcount) ==
  [map EXCEPT ![symbol] = list_add_value(@, value, refcount)]

\* Wrong variant: a value used for ever is counted down like the others.
Used_counted(list, i) ==
  IF list[i].refcount = 1 THEN RemoveAt(list, i)
  ELSE [list EXCEPT ![i].refcount = @ - 1]

\* One use of node i: its last removes it, an "always" becomes a "once".
Used(list, i) ==
  IF list[i].refcount = 1 THEN RemoveAt(list, i)
  ELSE IF list[i].refcount > WILL_RETURN_ONCE
       THEN [list EXCEPT ![i].refcount = @ - 1]
       ELSE list

\* The next value of a symbol and what is left of its list.  A value declared
\* for no use is not found.
get_symbol_value(map, symbol) ==
  IF map[symbol] = <<>> \/ Head(map[symbol]).refcount = 0 THEN [found |-> FALSE]
  ELSE [found |-> TRUE,
        value |-> Head(map[symbol]).value,
        map   |-> [map EXCEPT ![symbol] = Used(@, 1)]]

\* Wrong variant: all values behind one that is used for ever are dropped too.
remove_always_return_values_all(list) ==
  IF list # <<>> /\ Head(list).refcount < -1 THEN <<>> ELSE list

\* Only the first value of a symbol is looked at.
remove_always_return_values(list) ==
  IF list # <<>> /\ Head(list).refcount < -1 THEN Tail(list) ELSE list

\* Every node of the list of calls is: the nodes that stay.
remove_always_return_values_from_list(list) ==
  {i \in DOMAIN list : list[i].refcount >= -1}

check_for_leftover_values(map) ==
  \E symbol \in DOMAIN map : remove_always_return_values(map[symbol]) # <<>>

check_for_leftover_values_list(list) ==
  remove_always_return_values_from_list(list) # {}

\* Wrong variant: only the first expected call is compared.
Expected_first(order, function) ==
  {i \in DOMAIN order : i = 1 /\ order[i].value = function}

\* The expected call that a call of function answers: the first of that name,
\* if all before it may be left out.
Expected(order, function) ==
  {i \in DOMAIN order :
     /\ order[i].value = function
     /\ \A j \in 1 .. i - 1 : order[j].value # function /\ order[j].refcount < -1}

-----------------------------------------------------------------------------
(***************************************************************************)
(* The comparisons.  Integers are cast to LargestIntegralType, which has no *)
(* sign: 2^16 stands for its size, and -1 is its largest value.            *)
(***************************************************************************)
LargestIntegralType == 0 .. 65535

Cast(n) == n % 65536

values_equal(left, right) == Cast(left) = Cast(right)

value_in_set(value, set) == \E n \in set : Cast(n) = Cast(value)

integer_in_range(value, range_min, range_max) ==
  Cast(value) \in Cast(range_min) .. Cast(range_max)

\* Strings and areas of memory are compared by what they hold, an area only
\* up to the size the test gives.
string_equal(left, right) == left = right

memory_equal(a, b, size) == \A i \in 1 .. size : a[i] = b[i]

\* valmax is the largest value of a signed result, but 255 for one byte.
assert_return_code(result, rlen) ==
  Cast(result) <= (IF rlen = 1 THEN 255 ELSE 32767) - 1

\* A check is what a test expects of a value: `not' inverts all but "any".
Holds(check, value) ==
  CASE check.is = "any"    -> TRUE
    [] check.is = "value"  -> values_equal(value, check.value) # check.not
    [] check.is = "set"    -> value_in_set(value, check.set) # check.not
    [] check.is = "range"  -> integer_in_range(value, check.min, check.max) # check.not
    [] check.is = "string" -> string_equal(value, check.string) # check.not
    [] check.is = "memory" -> memory_equal(value, check.memory, check.size) # check.not
    [] check.is = "code"   -> assert_return_code(value, check.rlen)
===============================================================================
