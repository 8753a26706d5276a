---------------------------- MODULE ConsulAnswer ----------------------------
(***************************************************************************)
(* What an answer of ngx_http_consul_service_discovery_module says: the    *)
(* values of the catalogue, and how RFC 8259 has them written.             *)
(***************************************************************************)
EXTENDS ConsulSidecar

-----------------------------------------------------------------------------
(* How RFC 8259 has the values written that occur: a sequence of members   *)
(* makes an object, a sequence of values an array.                         *)

TextOf(s)  == JStr(s)
Number(n)  == Printed(n)
Array(vs)  == <<"[">> \o Listed(vs) \o <<"]">>
Object(ms) == <<"{">> \o Listed(ms) \o <<"}">>
Member(key, value) == JStr(key) \o <<":">> \o value
When(given, ms) == IF given THEN ms ELSE <<>>

CheckValue(ck) ==
    Object(<<Member(Chars("name"), TextOf(ck.name)), Member(ck.type, TextOf(ck.target))>>
           \o When(ck.interval # <<>>, <<Member(Chars("interval"), TextOf(ck.interval))>>)
           \o When(ck.timeout # <<>>, <<Member(Chars("timeout"), TextOf(ck.timeout))>>))

ServiceValue(sv) ==
    Object(<<Member(Chars("id"), TextOf(sv.id)), Member(Chars("name"), TextOf(sv.name)),
             Member(Chars("address"), TextOf(sv.address)), Member(Chars("port"), Number(sv.port)),
             Member(Chars("tags"), Array(Each(TextOf, sv.tags)))>>
           \o When(sv.meta # <<>>,
                   <<Member(Chars("meta"), Object(Each(LAMBDA kv : Member(kv[1], TextOf(kv[2])), sv.meta)))>>)
           \o When(sv.checks # <<>>,
                   <<Member(Chars("checks"), Array(Each(CheckValue, sv.checks)))>>))

\* The catalogue as README.md:387-428 shows it.
CatalogueValue(list) ==
    Object(<<Member(Chars("services"), Array(Each(ServiceValue, list)))>>)

-----------------------------------------------------------------------------
\* An answer is the catalogue of one configuration, written as RFC 8259 asks, and its length
\* is told with it, also to HEAD, which gets no body (ngx_http_consul_service_discovery_module.c:786-853).
AnswerRight ==
    reply # Unset /\ reply.answer.status = 200 =>
      LET text == CatalogueValue(reply.from.services)
      IN  reply.answer.length = Len(text) /\ reply.answer.body \in {text, <<>>}

=============================================================================
