----------------------------- MODULE MCHistory ------------------------------
(***************************************************************************)
(* Four messages: two of one second by two users, the second of them with  *)
(* a job and quoting the first; the answer of the bot; and a later one.    *)
(***************************************************************************)
EXTENDS History

CONSTANTS u1, u2

MCMessages == 1..4
MCWhen == <<1, 1, 2, 3>>
MCAuthor == <<u1, u2, Bot, u1>>
MCQuotes == <<Nobody, u1, Nobody, Nobody>>
MCSource == <<1, 2, 2, 4>>
MCJobs == {2}
MCUsers == {u1, u2}

=============================================================================
