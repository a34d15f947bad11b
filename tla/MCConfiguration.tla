--------------------------- MODULE MCConfiguration ---------------------------
(* Instances of Configuration for TLC. *)
EXTENDS Configuration

Protocol(kind, members, gi, tokens, address, ioa, typeId) ==
    [kind |-> kind, members |-> members, groups |-> gi, tokens |-> tokens,
     address |-> address, ca |-> 1, ioa |-> ioa, typeId |-> typeId]

Point(gi, tokens, ioa, typeId) == Protocol("iec104", TRUE, gi, tokens, TRUE, ioa, typeId)

Listing(tokens) == Point("string", tokens, 1, "M_SP_NA_1")

\* Three addresses; every way in which an element may be wrong, and lists of
\* groups that are right, wrong at their first or at a later token, or broken.
Protocols ==
    {Point("absent", <<>>, 1, "C_SC_TA_1"), Point("other", <<>>, 2, "M_ME_TE_1"),
     Point("absent", <<>>, 3, "M_BO_NA_1"),
     Listing(<<>>), Listing(<<Station, 16>>), Listing(<<3, 17, NoInt>>),
     Listing(<<Word>>), Listing(<<1, NoInt>>),
     Protocol("broken", FALSE, "absent", <<>>, FALSE, 1, "unknown"),
     Protocol("other", FALSE, "other", <<>>, FALSE, 1, "unknown"),
     Protocol("iec104", FALSE, "absent", <<>>, TRUE, 1, "M_SP_NA_1"),
     Protocol("iec104", TRUE, "absent", <<>>, FALSE, 1, "M_SP_NA_1")}

Upto(n, S) == UNION {[1 .. k -> S] : k \in 0 .. n}

Document(ps) == [ok |-> TRUE, protocols |-> ps]

\* A data point with up to two elements and one with up to one; a data point
\* of each type; data points that are broken; no data points at all.
Exchanges ==
    {[ok |-> TRUE, datapoints |-> <<Document(p), Document(q)>>] :
        p \in Upto(2, Protocols), q \in Upto(1, Protocols)}
      \union
    {[ok |-> TRUE, datapoints |-> <<Document(<<Point("absent", <<>>, 1, typeId)>>)>>] :
        typeId \in TypeIds}
      \union
    {[ok |-> ok, datapoints |-> <<Document(<<Listing(<<2>>)>>), [ok |-> FALSE, protocols |-> <<>>],
                                  Document(<<Point("absent", <<>>, 3, "M_SP_NA_1")>>)>>] :
        ok \in BOOLEAN}

Stack(transport, application, json, tls, gs, oas, monitoring) ==
    [transport |-> transport, application |-> application, json |-> json, tls |-> tls, groups |-> gs, filter_list |-> oas,
     mode |-> "accept_if_south_connx_started", south_monitoring |-> monitoring]

Client(ok, ip) == [ok |-> ok, clt_ip |-> ip]

Group(ok, clients) == [ok |-> ok, connections |-> clients]

\* Groups of which the first may be ignored, with a client that is ignored.
GroupLists ==
    {<<>>} \union
    {<<Group(ok, <<Client(TRUE, "a")>>),
       Group(TRUE, <<Client(valid, "b"), Client(TRUE, "c")>>)>> : ok, valid \in BOOLEAN}

\* The limits of all ranges and the values beyond.
Limits == {-1, 0, 1, 2, 3, 4, 10, 11, 253, 254, 255, 256, 32767, 32768, 65535, 65536}

Tls(ok, own, key, remote, ca) ==
    [ok |-> ok, own_cert |-> own, private_key |-> key, remote_certs |-> remote, ca_certs |-> ca]

NoTls == Tls(FALSE, FALSE, FALSE, <<>>, <<>>)

Cert(ok, loaded) == [ok |-> ok, loaded |-> loaded]

\* Lists of certificates that name no file, that cannot be loaded, or can.
Certs == {<<>>, <<Cert(FALSE, FALSE)>>, <<Cert(TRUE, FALSE)>>,
          <<Cert(FALSE, FALSE), Cert(TRUE, FALSE), Cert(TRUE, TRUE)>>}

Plain == Stack(TRUE, TRUE, <<>>, FALSE, <<>>, {}, <<>>)

Conf(exchange, stack, tls) ==
    [items |-> TRUE, exchange |-> exchange, stack |-> stack, tls |-> tls]

Empty == [ok |-> FALSE, datapoints |-> <<>>]

\* Each of the three texts is independent of the others.
AllConfigurations ==
    {[items |-> FALSE, exchange |-> Empty, stack |-> Plain, tls |-> NoTls]}
      \union
    {Conf(e, Plain, NoTls) : e \in Exchanges}
      \union
    {Conf(Empty, Stack(ok, ok, [n \in {name} |-> v], FALSE, <<>>, {v}, <<[ok |-> ok, asset |-> "south"]>>), NoTls) :
        ok \in BOOLEAN, name \in DOMAIN Defaults, v \in Limits}
      \union
    {Conf(Empty, Stack(TRUE, application, <<>>, TRUE, gs, {}, <<>>), Tls(ok, own, key, remote, ca)) :
        application \in BOOLEAN, gs \in GroupLists, ok, own, key \in BOOLEAN, remote, ca \in Certs}
      \union
    {Conf(Empty, Stack(transport, TRUE, <<>>, transport, <<>>, {}, <<>>), Tls(TRUE, TRUE, TRUE, <<>>, <<>>)) :
        transport \in BOOLEAN}
=============================================================================
