----------------------------- MODULE HumoServer -----------------------------
(***************************************************************************)
(* The processing server as the kiosk sees it (external: the repository    *)
(* holds only the client).  A session is a payment attempt on the server.  *)
(* Each operator gives, for the state of a session when a request reaches  *)
(* it, the pairs <<state afterwards, answer the kiosk reads>>; the answer  *)
(* "net" is RequestSender::request returning no response (a failed         *)
(* transfer, an answer that cannot be verified or decoded), which says     *)
(* nothing of what the server did.                                         *)
(*                                                                         *)
(* ASSUMED of the server, from how Humo/src/Payment.cpp reads its answers: *)
(* a second PAY of the same session has no effect; a PAY whose answer was  *)
(* lost has taken effect, or never will, when a later request is answered. *)
(***************************************************************************)

SessionStates == {"none", "checked", "pending", "paid", "failed"}

\* The sessions on which the operator has been, or may still be, given money.
Charged == {"pending", "paid"}

CheckAnswers  == {"ok", "soft", "critical", "exists", "net"}
PayAnswers    == {"ok", "soft", "critical", "net"}
StatusAnswers == {"absent", "notpaid", "waiting", "sent", "paid", "failed",
                  "error", "unknown", "beyond", "net"}
Answers == CheckAnswers \union PayAnswers \union StatusAnswers

Check(s) ==
    IF s = "none"
    THEN {<<"checked", "ok">>, <<"none", "soft">>, <<"none", "critical">>,
          <<"none", "net">>, <<"checked", "net">>}
    ELSE {<<s, "exists">>, <<s, "net">>}

\* A PAY that succeeds may be taken at once ("paid") or be passed on to the
\* operator of the service ("pending"), who takes or refuses it later.
Pay(s) ==
    IF s = "checked"
    THEN {<<"paid", "ok">>, <<"pending", "soft">>, <<"failed", "soft">>,
          <<"failed", "critical">>, <<"checked", "soft">>, <<"checked", "net">>,
          <<"pending", "net">>, <<"paid", "net">>}
    ELSE {<<s, "soft">>, <<s, "net">>}

\* STATUS changes nothing.  "error" is an answer with no RESULT and an error
\* other than SessionNotExist, "unknown" a RESULT the kiosk has no case for,
\* "beyond" such a RESULT above all it knows (only once PAY has come: the kiosk
\* compares with >=), "failed" the final RESULT with an error.
Status(s) ==
    {"net", "error", "unknown"} \union
    CASE s = "none"    -> {"absent"}
      [] s = "checked" -> {"notpaid"}
      [] s = "pending" -> {"waiting", "sent", "beyond"}
      [] s = "paid"    -> {"paid", "beyond"}
      [] s = "failed"  -> {"notpaid", "failed", "beyond"}

\* The operator's decision on a payment passed on to it.
Settle(s) == IF s = "pending" THEN {"paid", "failed"} ELSE {}

(***************************************************************************)
(* What a STATUS answer means: RESULT and ERROR as Payment::process and    *)
(* Payment::remove read them.                                              *)
(***************************************************************************)
SaysNotPaid == {"absent", "notpaid", "failed"}
SaysInProgress == {"waiting", "sent"}
=============================================================================
