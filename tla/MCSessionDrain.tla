---------------------------- MODULE MCSessionDrain ----------------------------
(* Instances of SessionDrain small enough for TLC.                             *)
EXTENDS SessionDrain, TLC

Prompt1(id, delivery, body) == [id |-> id, delivery |-> delivery, body |-> body, resume |-> TRUE]

Clients == Permutations(Client)

\* Each of two IDs is used for a steer and for a queued prompt: whichever comes first is
\* admitted, so that a session has two steers, two queued inputs or one of each.  The
\* steer under b is admitted without a wake.
FourPrompts ==
  {Prompt1("a", "steer", "x"), Prompt1("a", "queue", "y"), Prompt1("b", "queue", "x"),
   [Prompt1("b", "steer", "y") EXCEPT !.resume = FALSE]}

TwoPrompts == {Prompt1("a", "steer", "x"), Prompt1("b", "queue", "x")}
===============================================================================
