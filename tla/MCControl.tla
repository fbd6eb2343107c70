----------------------------- MODULE MCControl -----------------------------
EXTENDS Control

CONSTANTS c1, c2

\* The commands are interchangeable, so that one of them may make fewer requests.
MCOps == [c \in {c1, c2} |->
             {"start", "stop", "bind"} \cup (IF c = c1 THEN {"ping", "unbind"} ELSE {})]
=============================================================================
