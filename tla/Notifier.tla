------------------------------ MODULE Notifier ------------------------------
(***************************************************************************)
(* Notify of notify/feishu.go, one post after another, by what becomes of  *)
(* each.  delivered says whether the group sees the card for the post,     *)
(* answer what Notify sees:                                                *)
(*                                                                         *)
(*   ok          status 200, code 0                                        *)
(*   apiError    status 200, another code                                  *)
(*   unreadable  status 200, a body that is no JSON, as a proxy sends      *)
(*   status      another status, which may be that of a proxy              *)
(*   none        no response: refused, lost or too late                    *)
(*   cancelled   the context ends in the wait before the post              *)
(*                                                                         *)
(* A definition named Slip... is the one below it as a plausible bug would *)
(* have it; nothing uses it.                                               *)
(***************************************************************************)
EXTENDS Integers

CONSTANT RetryCount

ASSUME NotifierAssumption == RetryCount \in Nat

\* NewFeishuNotifier
MaxPosts == IF RetryCount = 0 THEN 3 ELSE RetryCount

Exchange(answer, delivered) == [answer |-> answer, delivered |-> delivered]

\* A card is shown with the code 0 and with no other; without an answer of Feishu's own
\* nobody knows.
Exchanges ==
  {Exchange("ok", TRUE), Exchange("apiError", FALSE), Exchange("cancelled", FALSE)}
  \cup {Exchange(answer, delivered) :
          answer \in {"none", "unreadable", "status"}, delivered \in BOOLEAN}

\* Slip: a body that is no JSON is an error.
SlipAccepted(answer) == answer = "ok"

\* A body that cannot be read counts as success.
Accepted(answer) == answer \in {"ok", "unreadable"}

LastPost(posts) == posts = MaxPosts

\* How far Notify is: the posts it made, and what it returned; "posting" is not yet.
Begun == [posts |-> 0, result |-> "posting"]

\* Its loop.  The wait before the first post is left out, and so is its end.
Posting(at, exchange) ==
  LET posts == at.posts + 1
  IN  IF exchange.answer = "cancelled" /\ at.posts > 0
      THEN [at EXCEPT !.result = "cancelled"]
      ELSE [posts  |-> posts,
            result |-> IF Accepted(exchange.answer) THEN "sent"
                       ELSE IF LastPost(posts) THEN "failed"
                       ELSE "posting"]
=============================================================================
