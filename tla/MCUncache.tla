------------------------------ MODULE MCUncache ------------------------------
(* Uncache for TLC. *)
EXTENDS Uncache

\* Every command line of at most one option, one with two tests and one with
\* an error after a test.
MCCommandLines ==
    {<<>>, <<"u">>, <<"c">>, <<"x">>, <<"a">>, <<"?">>, <<"x", "a">>, <<"c", "?">>}
===============================================================================
