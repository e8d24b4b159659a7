-------------------------- MODULE MCControlStream --------------------------
(* A TLC instance of ControlStream. *)
EXTENDS ControlStream

\* A keyword of every kind, in both cases, one that is unknown and one that is not UTF-8.
Keys == {"USER", "noop", "STAT", "SYST", "RETR", "LIST", "AUTH", "STRU", "XPWD", "SITE",
         "other", BadUtf8}

Texts(S, n) == UNION {[1..k -> S] : k \in 0..n}

Args == Texts({"x", Space, CR, NUL}, 2)
          \union {<<"F">>, <<"tls">>, <<BadUtf8>>, <<"MD5">>, <<"MD5", Space, "x">>,
                  <<Option, Space, "x">>, <<Option>>, <<"x", Space, CR>>}

AllRequests == [key : Keys, arg : Args, encoded : BOOLEAN]

\* One whose line starts like the rest of another, and a short one.
TwoProbes == {[key |-> "USER", arg |-> <<CR, "x">>, encoded |-> TRUE],
              [key |-> "noop", arg |-> <<>>, encoded |-> FALSE]}

SomeHeaders == Texts({"x", CR}, 5)
=============================================================================
