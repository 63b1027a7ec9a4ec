---------------------------- MODULE MCForwarding ----------------------------
(* A small instance of Forwarding: requests that vary in one respect each. *)
EXTENDS Forwarding, TLC

MCUpper == [c \in {"A"} |-> "a"]

E(c, d) == [c |-> c, d |-> d]
Clear == <<Plain("a")>>
Send1(client, forged, path, query, body) ==
    [client |-> client, forged |-> forged, path |-> path, query |-> query, body |-> body]
Ordinary == Send1("c", <<>>, Clear, <<>>, Bytes(Clear, "none", "ok"))

SeqsUpTo(n, items) == UNION {[1..k -> items] : k \in 0..n}

\* Blanks and comment signs in any order; a comment between any others;
\* encodings of every depth, also mixed in one comment.
C(c) == Plain(c)
Texts == SeqsUpTo(4, {C("a"), C("/"), C("*"), Newline})
    \union {p \o <<C("/"), C("*"), x, C("*"), C("/")>> \o q : x \in {C("a"), Newline},
               p \in SeqsUpTo(1, {C("/"), C("*")}), q \in SeqsUpTo(3, {C("/"), C("*")})}
    \union SeqsUpTo(2, [c : {"A", "+", " ", "*", "\n"}, d : 0..4])
    \union {<<E("/", i), E("*", j), Plain("a"), E("*", k), E("/", i), E("+", j)>>
               : i, j, k \in 0..3}
P(key, value) == [key |-> key, value |-> value]

Paths == SeqsUpTo(3, {E("a", 0), E("b", 1), E("a", 2), E("?", 1), E("#", 1),
                      E("..", 0), E("..", 1), E("..", 2), E(".", 1)})

MCRequests ==
    {[Ordinary EXCEPT !.body = Bytes(t, "none", "ok")] : t \in Texts}
    \union {[Ordinary EXCEPT !.body = Bytes(t, p, f)]
               : t \in SeqsUpTo(1, {E("a", 0), E("A", 1)}), p \in {"gzip", "br"}, f \in Faults}
    \union {[Ordinary EXCEPT !.forged = f] : f \in SeqsUpTo(2, {"x", Front})}
    \union {[Ordinary EXCEPT !.path = t] : t \in Paths}
    \union {[Ordinary EXCEPT !.query = q] : q \in SeqsUpTo(3, {P("k", 1), P("k", 2), P("l", 1)})}

MCOrigins ==
    {Origin(s, h, p) : s \in {"http", "https"}, h \in {"site", "SITE"}, p \in {"", "80", "8080"}}
    \union {Origin("", "site", ""), Origin("http", "shop", "")}
MCTargets ==
    {Origin("http", "site", ""), Origin("http", "site", "80"),
     Origin("https", "SITE", "8080")}
=============================================================================
