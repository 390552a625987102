----------------------------- MODULE MCTestRunner -----------------------------
(* TestRunner for TLC. *)
EXTENDS TestRunner

\* A test like preempt_on_resume, one without children, one like
\* pcp_inheritance.
MCSuite == <<2, 0, 3>>
===============================================================================
