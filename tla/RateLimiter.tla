---------------------------- MODULE RateLimiter ----------------------------
(***************************************************************************)
(* The rate limiter, src/src/ratelimit.rs: a map from keys to the count    *)
(* and the start of a fixed window.  check holds the map's lock, so a call *)
(* is one step of its caller.                                              *)
(***************************************************************************)
EXTENDS Integers, FiniteSets

CONSTANTS
  MAX_TRACKED_KEYS,  \* 20 000: above it, old keys are forgotten
  FORGET_SECS        \* 7200

ASSUME RateLimiterAssumption == {MAX_TRACKED_KEYS, FORGET_SECS} \subseteq Nat

put(map, key, value) ==
  [k \in DOMAIN map \cup {key} |-> IF k = key THEN value ELSE map[k]]
restrict_to(map, keys) == [k \in DOMAIN map \cap keys |-> map[k]]

\* Mutant of retained: when there are too many keys, all are forgotten.
retained_none(windows, now) ==
  IF Cardinality(DOMAIN windows) > MAX_TRACKED_KEYS THEN restrict_to(windows, {})
  ELSE windows

\* The map without the keys untouched for long, when there are too many.
retained(windows, now) ==
  IF Cardinality(DOMAIN windows) > MAX_TRACKED_KEYS
  THEN restrict_to(windows,
                   {k \in DOMAIN windows : now - windows[k].started < FORGET_SECS})
  ELSE windows

\* The window a call at this time falls into.
window_at(windows, key, window_secs, now) ==
  IF key \in DOMAIN windows /\ now - windows[key].started <= window_secs
  THEN windows[key] ELSE [count |-> 0, started |-> now]

\* Mutant of check: the call that opens a window is not counted in it.
check_first_free(windows, key, max_count, window_secs, now) ==
  LET w == window_at(retained(windows, now), key, window_secs, now)
  IN  [ok |-> w.count < max_count,
       windows |-> put(retained(windows, now), key,
                       IF w.started # now /\ w.count < max_count
                       THEN [w EXCEPT !.count = @ + 1] ELSE w)]

\* Is the call allowed, and the map after it.
check(windows, key, max_count, window_secs, now) ==
  LET w == window_at(retained(windows, now), key, window_secs, now)
      ok == w.count < max_count
  IN  [ok |-> ok,
       windows |-> put(retained(windows, now), key,
                       IF ok THEN [w EXCEPT !.count = @ + 1] ELSE w)]
=============================================================================
