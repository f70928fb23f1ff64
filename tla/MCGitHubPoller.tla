---------------------------- MODULE MCGitHubPoller ----------------------------
(***************************************************************************)
(* Model values for GitHubPoller: two changes-requested reviews of neo's   *)
(* pull request, a comment, an unsigned review and two continuations.  The *)
(* reviews, or a review and the comment, or the unsigned review on a board *)
(* that may link two items, or the continuations come up in one behaviour. *)
(***************************************************************************)
EXTENDS GitHubPoller

CONSTANTS e1, e2, e3, e4, k1, k2, neo, trinity

MCContent ==
  [e \in Feedback |->
     [kind |-> IF e = e3 THEN "issue_comment" ELSE "review",
      state |-> IF e = e3 THEN "COMMENTED" ELSE "CHANGES_REQUESTED",
      actor |-> IF e = e4 THEN Unsigned ELSE trinity, mentions |-> {}, asks |-> FALSE,
      createdAt |-> CASE e = e1 -> 2 [] e = e2 -> 1 [] e \in {e3, e4} -> 1]]

MCWaitsFor ==
  [k \in Continuations |-> IF k = k1 THEN "pull_request_merged" ELSE "checks_completed"]

MCRecipient == [k \in Continuations |-> neo]

MCKinds == <<"review", "issue_comment">>

Linked == {[task |-> TRUE, agent |-> neo]}

Shared == Linked \cup {[task |-> FALSE, agent |-> trinity]}

MCWorkloads ==
  {[news |-> {e1, e2}, boards |-> {{}, Linked}, moves |-> 0],
   [news |-> {e1, e3}, boards |-> {{}, Linked}, moves |-> 0],
   [news |-> {e4}, boards |-> {{}, Linked, Shared}, moves |-> 0],
   [news |-> {k1}, boards |-> {{}}, moves |-> 2],
   [news |-> {k2}, boards |-> {{}}, moves |-> 2],
   [news |-> {k1, k2}, boards |-> {{}}, moves |-> 1]}
=============================================================================
