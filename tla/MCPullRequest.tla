--------------------------- MODULE MCPullRequest ---------------------------
(***************************************************************************)
(* Two dispatches at once; which of them is which makes no difference.     *)
(***************************************************************************)
EXTENDS PullRequest, TLC

CONSTANTS fix, ciFix

\* The sweep of dependency updates, a comment, and a retry asked for by comment.
MCRequests == {[wf |-> ciFix, explicit |-> FALSE, asks |-> FALSE]}
              \cup [wf : {fix}, explicit : {TRUE}, asks : BOOLEAN]

\* A verdict that costs no attempt counts as no diagnosis does, and one that
\* another attempt may help with as one that cannot be read.
MCOutcomes == {[status |-> "failed", done |-> "unread"]} \cup
              [status : {"succeeded"}, done : {"nothing", "stuck"}]

Symmetry == Permutations(Events)
=============================================================================
