-------------------------------- MODULE MCSkwTx -------------------------------
\* The instance: voice and best effort, acks with and without options.
EXTENDS SkwTx
MCAcs == <<"VO", "BE">>
MCKinds == {[q |-> "VO", stream |-> "none", plain |-> FALSE],
            [q |-> "BE", stream |-> "none", plain |-> FALSE],
            [q |-> "ACK", stream |-> "s", plain |-> TRUE],
            [q |-> "ACK", stream |-> "t", plain |-> TRUE]}
MCQuota == [a \in Categories |-> IF a = "VO" THEN 1 ELSE Grant]

\* What skw_merge_pure_ack does with up to five acks of two streams: it
\* invents and repeats none, drops only plain ones, keeps one of every stream
\* and, if there is only one stream, the last ack.
Acks == {k \in MCKinds : k.q = Ack}
        \cup {[q |-> Ack, stream |-> "s", plain |-> FALSE]}
Numbered(s) == [i \in DOMAIN s |-> [q |-> Ack, stream |-> s[i].stream,
                                    plain |-> s[i].plain, id |-> i]]
ASSUME MergeKeepsStreams ==
  \A n \in 1 .. 5 : \A k \in [1 .. n -> Acks] :
    LET s == Numbered(k)
        out == skw_merge_pure_ack(s, <<>>)
        streams == {f.stream : f \in ToSet(s)}
    IN /\ ToSet(out) \subseteq ToSet(s) /\ IsInjective(out)
       /\ \A f \in ToSet(s) \ ToSet(out) : f.plain
       /\ streams = {f.stream : f \in ToSet(out)}
       /\ Cardinality(streams) = 1 => Last(s) \in ToSet(out)
===============================================================================
