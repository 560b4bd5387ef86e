------------------------------ MODULE MCRehearsal ------------------------------
EXTENDS Rehearsal

(* A classic mint with nothing against it.                                 *)
Plain ==
    [denied |-> FALSE, allowed |-> FALSE, traded |-> FALSE,
     initialized |-> "yes", freezeAuthority |-> "no", mintAuthority |-> "no",
     program |-> "spl-token", supply |-> "some", oddDecimals |-> FALSE,
     deep |-> TRUE, holders |-> "read", top1 |-> 10, top5 |-> 30,
     metadata |-> "immutable", extensionsReadable |-> TRUE, extensions |-> {},
     transferFeeBps |-> -1, impactGiven |-> FALSE, impact |-> 0]

Token2022(extensions, fee) ==
    [Plain EXCEPT !.program = "spl-token-2022", !.extensions = extensions,
                  !.transferFeeBps = fee]

(* Nothing critical, and still a score that rejects.                       *)
HeldByFew ==
    [Plain EXCEPT !.mintAuthority = "yes", !.top1 = 60, !.metadata = "mutable"]

(* One for each way to a reading: clear, a fee that is no blocker, a fee   *)
(* that is, a hook, and a rejection by the score.                          *)
MCChainFacts ==
    {Plain, Token2022({"transferFee"}, 500), Token2022({"transferFee"}, 1000),
     Token2022({"transferHook"}, -1), HeldByFew}
=============================================================================
