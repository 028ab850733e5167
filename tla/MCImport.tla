------------------------------ MODULE MCImport ------------------------------
\* Documents of each shape the extractor knows, and of one it stumbles on.
EXTENDS ImportAdr, TLC

Label(token, words) == [token |-> token, words |-> words, long |-> FALSE]
Sqlite == Label("1", {"sqlite"})
Redis == Label("2", {"redis"})
Kafka == Label("3", {"kafka"})
NumberOne == Label("1", {})
Cluster == Label("", {"redis", "cluster"})
PlainRedis == Label("", {"redis"})
Overlong == [token |-> "", words |-> {"any", "queue"}, long |-> TRUE]

Bullet(label, says, text) == [label |-> label, says |-> says, text |-> text]
Part(label, prose, bullets) == [label |-> label, prose |-> prose, bullets |-> bullets]
Section(head, chosen, bullets, children) ==
    [head |-> head, chosen |-> chosen, bullets |-> bullets, children |-> children]
Bad(text) == Bullet(NoLabel, "bad", text)
Good(text) == Bullet(NoLabel, "good", text)
Neutral(text) == Bullet(NoLabel, "neutral", text)
Bullets(labels) == [k \in DOMAIN labels |-> Bullet(labels[k], "plain", {})]

\* Names here, reasons elsewhere; the chosen option has its drawback as well.
Madr ==
    <<Section({"considered options"}, NoLabel, Bullets(<<Sqlite, Redis, Kafka, Label("4", {"nats"})>>), <<>>),
      Section({"outcome"}, NumberOne, <<>>, <<>>),
      Section({"pros and cons"}, NoLabel, <<>>,
          <<Part(Sqlite, {}, <<Good({"one file"}), Bad({"one writer"})>>),
            Part(Redis, {}, <<Good({"fast"}), Bad({"loses data", "revisit"})>>),
            Part(Kafka, {}, <<Neutral({"another service"})>>)>>)>>
\* A heading and prose per option; in the second, one is named within another.
Headed(labels) ==
    <<Section({"considered options"}, NoLabel, <<>>,
          [k \in DOMAIN labels |-> Part(labels[k], {"loses data", "revisit"}, <<>>)]),
      Section({"outcome"}, Kafka, <<>>, <<>>)>>
Sylius == Headed(<<PlainRedis, Kafka>>)
Nested == Headed(<<PlainRedis, Cluster>>)
\* Option and reason in one bullet; in the second, the chosen one among them.
Bulleted(labels) ==
    <<Section({"alternatives rejected"}, NoLabel,
          <<Bullet(Kafka, "plain", {"revisit"})>>
          \o [k \in DOMAIN labels |-> Bullet(labels[k], "plain", {"loses data"})], <<>>),
      Section({"outcome"}, Sqlite, <<>>, <<>>)>>
Inline == Bulleted(<<PlainRedis>>)
Considered == Bulleted(<<PlainRedis, Sqlite>>)
Wordy == <<Section({"alternatives rejected"}, NoLabel, <<Bullet(Overlong, "plain", {"too slow"})>>, <<>>)>>
Nygard == <<Section({"other"}, NoLabel, <<Bad({"nothing"})>>, <<>>)>>
\* A directory that documents of every shape pass through.
MCCorpora == {(1 :> x) @@ (2 :> y) : <<x, y>> \in
    {<<Madr, Inline>>, <<Sylius, Nested>>, <<Inline, Wordy>>, <<Considered, NoDocument>>, <<Nygard, NoDocument>>}}
MCDrafting == {Madr, Nygard}

QuietImport == corpus = (1 :> Nygard) @@ (2 :> NoDocument) /\ ImportInit
=============================================================================
