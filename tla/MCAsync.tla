------------------------------- MODULE MCAsync -------------------------------
(* Instances of Async for TLC. *)
EXTENDS Async

CONSTANTS a, b, async_running

TwoThreads == {a, b}
OneThread == {a}
OneDomain == {async_running}
=============================================================================
