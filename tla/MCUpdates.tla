----------------------------- MODULE MCUpdates ------------------------------
(* Three documents: a fix, and an entry corrected twice, each time with a  *)
(* field that older builds do not know.                                    *)
EXTENDS Updates

Doc(serial, schema, flag, agent) ==
    [serial |-> serial, schema |-> schema, flag |-> flag, marker |-> flag, agent |-> agent]

Sets(key, style, needs) == [key |-> key, style |-> style, needs |-> needs]

Shipped == Doc(0, 3, "old", Nil)
Drafts == {Doc(1, 1, "new", {Sets("inner", "origin", FALSE), Sets("outer", "origin", FALSE)}),
           Doc(2, 2, "new", {Sets("inner", "versioned", FALSE)}),
           Doc(3, 3, "new", {Sets("inner", "versioned", TRUE), Sets("outer", "versioned", FALSE)})}
Schemas == <<2, 3>>
=============================================================================
