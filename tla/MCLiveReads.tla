---------------------------- MODULE MCLiveReads -----------------------------
(* Instances of LiveReads for TLC. *)
EXTENDS LiveReads

\* A follower in the process of the storage, and three over HTTP.
AllClients == {<<"direct", "start">>, <<"direct", "now">>, <<"poll", "start">>,
               <<"poll", "now">>, <<"session", "start">>, <<"sse", "start">>, <<"sse", "now">>}

\* A long poll of a reader that has no offset yet.
FromNow == {<<"session", "now">>}

\* Deciders meet only the follower in their own process.
MCNext == Next /\ (client # <<"direct", "start">> => UNCHANGED decider)
MCSpec == Init /\ [][MCNext]_vars /\ Fairness
=============================================================================
