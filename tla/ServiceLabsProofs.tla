--------------------------- MODULE ServiceLabsProofs ---------------------------
(***************************************************************************)
(* Set-ups and teardowns of the workshops, for any number of them and       *)
(* however many calls are lost: the cdc labs can count on the replication   *)
(* slot, as long as a job stops within the seconds the labs sleep; the      *)
(* state is well typed; a process in which no call was lost goes through,   *)
(* unless a teardown of ssb swallowed the refusal to delete its schema; a   *)
(* teardown that went through leaves nothing of the workshop but for that   *)
(* schema; and each step is one of WorkshopLife or changes nothing it knows.*)
(***************************************************************************)
EXTENDS ServiceLabs, Integers, TLAPS

\* The labs sleep three seconds after they have stopped a job.
StopsInTime == StopTime <= 3

KnownWorkshops == WorkshopIds \subseteq {"ssb", "cdc", "fraud", "nifi", "dataviz"}

-----------------------------------------------------------------------------
(* The scripts.                                                            *)

\* The statements of the other workshops: each names what its call is about, and
\* none starts a job that reads through the slot.
Plains == Artefacts \ Controllers

Quiet == [op : {"make", "find"}, arg : {{x} : x \in Artefacts}, wait : Nat]
         \cup [op : {"control"}, arg : {{x} : x \in Controllers}, wait : Nat]
         \cup [op : {"drop", "try", "delete"}, arg : SUBSET Plains, wait : Nat]
         \cup [op : {"run"}, arg : SUBSET Processors, wait : Nat]
         \cup [op : {"ungroup"}, arg : {{x} : x \in Groups}, wait : Nat]
         \cup [op : {"start", "halt", "disable", "stop_all", "delete_jobs"}, arg : {{}}, wait : Nat]
         \cup {Submit("fraud_detection_job")}

LEMMA QuietCalls ==
  /\ \A x \in Artefacts : Make(x) \in Quiet /\ Find(x) \in Quiet
  /\ \A x \in Controllers : Control(x) \in Quiet
  /\ \A S \in SUBSET Plains : Drop(S) \in Quiet /\ Try(S) \in Quiet /\ DeleteEach(S) \in Quiet
  /\ \A S \in SUBSET Processors : Run(S) \in Quiet
  /\ \A op \in {"start", "halt", "disable", "delete_jobs"} : Plain(op) \in Quiet
  /\ Submit("fraud_detection_job") \in Quiet
  /\ \A x \in Groups : Statement("ungroup", {x}, 0) \in Quiet
  /\ \A n \in Nat : Statement("stop_all", {}, n) \in Quiet
<1>1. ASSUME NEW x \in Artefacts PROVE Make(x) \in Quiet /\ Find(x) \in Quiet
  BY <1>1 DEF Make, Find, Statement, Quiet
<1>2. ASSUME NEW x \in Controllers PROVE Control(x) \in Quiet
  BY <1>2 DEF Control, Statement, Quiet
<1>3. ASSUME NEW S \in SUBSET Plains PROVE Drop(S) \in Quiet /\ Try(S) \in Quiet /\ DeleteEach(S) \in Quiet
  BY <1>3 DEF Drop, Try, DeleteEach, Statement, Quiet
<1>4. ASSUME NEW S \in SUBSET Processors PROVE Run(S) \in Quiet
  BY <1>4 DEF Run, Statement, Quiet
<1>5. ASSUME NEW op \in {"start", "halt", "disable", "delete_jobs"} PROVE Plain(op) \in Quiet
  BY <1>5 DEF Plain, Statement, Quiet
<1>6. ASSUME NEW x \in Groups PROVE Statement("ungroup", {x}, 0) \in Quiet
  BY <1>6 DEF Statement, Quiet
<1>7. ASSUME NEW n \in Nat PROVE Statement("stop_all", {}, n) \in Quiet
  BY <1>7 DEF Statement, Quiet
<1>8. Submit("fraud_detection_job") \in Quiet
  BY DEF Quiet
<1> QED
  BY <1>1, <1>2, <1>3, <1>4, <1>5, <1>6, <1>7, <1>8

\* The statements of all workshops.
Statements == Quiet \cup [op : {"submit", "stop"}, arg : {{j} : j \in JobNames}, wait : Nat]

LEMMA Typed ==
  /\ \A x \in Artefacts : Make(x) \in Statements
  /\ \A j \in JobNames : Submit(j) \in Statements /\ \A n \in Nat : Stop(j, n) \in Statements
  /\ \A S \in SUBSET Plains : Drop(S) \in Statements
<1>1. ASSUME NEW j \in JobNames, NEW n \in Nat PROVE Submit(j) \in Statements /\ Stop(j, n) \in Statements
  <2> HIDE DEF Quiet
  <2> QED
    BY <1>1 DEF Submit, Stop, Statement, Statements
<1>2. Quiet \subseteq Statements
  BY DEF Statements
<1> HIDE DEF Quiet, Statements
<1> QED
  BY <1>1, <1>2, QuietCalls

LEMMA Joined ==
  ASSUME NEW S, NEW s \in Seq(S), NEW t \in Seq(S)
  PROVE  /\ s \o t \in Seq(S) /\ Len(s \o t) = Len(s) + Len(t)
         /\ \A i \in 1..(Len(s) + Len(t)) :
              (s \o t)[i] = IF i <= Len(s) THEN s[i] ELSE t[i - Len(s)]
OBVIOUS

LEMMA CdcParts ==
  /\ CdcBefore \in Seq(Statements) /\ Len(CdcBefore) = 1 /\ CdcBefore[1] = Drop(CdcTables)
  /\ CdcTableLab \in Seq(Statements) /\ Len(CdcTableLab) = 1 /\ CdcTableLab[1] = Make("transactions_cdc")
  /\ CdcCaptureLab \in Seq(Statements) /\ Len(CdcCaptureLab) = 2
  /\ CdcCaptureLab[1] = Submit("lab3") /\ CdcCaptureLab[2] = Stop("lab3", 3)
  /\ CdcReplicateLab \in Seq(Statements) /\ Len(CdcReplicateLab) = 3
  /\ CdcReplicateLab[1] = Make("trans_replica") /\ CdcReplicateLab[2] = Submit("lab4")
  /\ CdcReplicateLab[3] = Stop("lab4", 3)
  /\ CdcChangelogLab \in Seq(Statements) /\ Len(CdcChangelogLab) = 3
  /\ CdcChangelogLab[1] = Make("trans_changelog") /\ CdcChangelogLab[2] = Submit("lab5")
  /\ CdcChangelogLab[3] = Stop("lab5", 0)
<1>1. CdcTables \in SUBSET Plains
  BY DEF CdcTables, Plains, Artefacts, Tables, Controllers
<1>2. {"lab3", "lab4", "lab5"} \subseteq JobNames
  BY DEF JobNames
<1> HIDE DEF CdcTables
<1>3. "transactions_cdc" \in Artefacts /\ "trans_replica" \in Artefacts /\ "trans_changelog" \in Artefacts
  BY DEF Artefacts, Tables
<1>4. /\ CdcBefore \in Seq(Statements) /\ Len(CdcBefore) = 1 /\ CdcBefore[1] = Drop(CdcTables)
  BY <1>1, Typed DEF CdcBefore
<1>5. CdcTableLab \in Seq(Statements) /\ Len(CdcTableLab) = 1 /\ CdcTableLab[1] = Make("transactions_cdc")
  BY <1>3, Typed DEF CdcTableLab
<1>6. /\ CdcCaptureLab \in Seq(Statements) /\ Len(CdcCaptureLab) = 2
      /\ CdcCaptureLab[1] = Submit("lab3") /\ CdcCaptureLab[2] = Stop("lab3", 3)
  BY <1>2, Typed DEF CdcCaptureLab
<1>7. /\ CdcReplicateLab \in Seq(Statements) /\ Len(CdcReplicateLab) = 3
      /\ CdcReplicateLab[1] = Make("trans_replica") /\ CdcReplicateLab[2] = Submit("lab4")
      /\ CdcReplicateLab[3] = Stop("lab4", 3)
  BY <1>2, <1>3, Typed DEF CdcReplicateLab
<1>8. /\ CdcChangelogLab \in Seq(Statements) /\ Len(CdcChangelogLab) = 3
      /\ CdcChangelogLab[1] = Make("trans_changelog") /\ CdcChangelogLab[2] = Submit("lab5")
      /\ CdcChangelogLab[3] = Stop("lab5", 0)
  BY <1>2, <1>3, Typed DEF CdcChangelogLab
<1> QED
  BY <1>4, <1>5, <1>6, <1>7, <1>8

LEMMA CdcOrder ==
  /\ CdcSetup \in Seq(Statements) /\ Len(CdcSetup) = 10
  /\ CdcSetup[1] = Drop(CdcTables) /\ CdcSetup[2] = Make("transactions_cdc")
  /\ CdcSetup[3] = Submit("lab3") /\ CdcSetup[4] = Stop("lab3", 3)
  /\ CdcSetup[5] = Make("trans_replica") /\ CdcSetup[6] = Submit("lab4") /\ CdcSetup[7] = Stop("lab4", 3)
  /\ CdcSetup[8] = Make("trans_changelog") /\ CdcSetup[9] = Submit("lab5")
  /\ CdcSetup[10] = Stop("lab5", 0)
<1> DEFINE s2 == CdcBefore \o CdcTableLab
           s3 == s2 \o CdcCaptureLab
           s4 == s3 \o CdcReplicateLab
<1>1. /\ s2 \in Seq(Statements) /\ Len(s2) = 2
      /\ s2[1] = CdcBefore[1]
      /\ s2[2] = CdcTableLab[1]
  <2>1. CdcBefore \in Seq(Statements) /\ CdcTableLab \in Seq(Statements)
    BY CdcParts
  <2>2. s2 = CdcBefore \o CdcTableLab
    BY DEF CdcSetup, s4, s3, s2
  <2>3. /\ s2 \in Seq(Statements) /\ Len(s2) = Len(CdcBefore) + Len(CdcTableLab)
        /\ \A i \in 1..(Len(CdcBefore) + Len(CdcTableLab)) :
             s2[i] = IF i <= Len(CdcBefore) THEN CdcBefore[i] ELSE CdcTableLab[i - Len(CdcBefore)]
    <3> HIDE DEF s2
    <3> QED
      BY <2>1, <2>2, Joined
  <2>4. Len(CdcBefore) = 1 /\ Len(CdcTableLab) = 1
    BY CdcParts
  <2>5. \A i \in 1..2 : s2[i] = IF i <= 1 THEN CdcBefore[i] ELSE CdcTableLab[i - 1]
    BY <2>3, <2>4
  <2> QED
    BY <2>3, <2>4, <2>5
<1> HIDE DEF s2
<1>2. /\ s3 \in Seq(Statements) /\ Len(s3) = 4
      /\ s3[1] = s2[1]
      /\ s3[2] = s2[2]
      /\ s3[3] = CdcCaptureLab[1]
      /\ s3[4] = CdcCaptureLab[2]
  <2>1. s2 \in Seq(Statements) /\ CdcCaptureLab \in Seq(Statements)
    BY <1>1, CdcParts
  <2>2. s3 = s2 \o CdcCaptureLab
    BY DEF CdcSetup, s4, s3, s2
  <2>3. /\ s3 \in Seq(Statements) /\ Len(s3) = Len(s2) + Len(CdcCaptureLab)
        /\ \A i \in 1..(Len(s2) + Len(CdcCaptureLab)) :
             s3[i] = IF i <= Len(s2) THEN s2[i] ELSE CdcCaptureLab[i - Len(s2)]
    <3> HIDE DEF s3
    <3> QED
      BY <2>1, <2>2, Joined
  <2>4. Len(s2) = 2 /\ Len(CdcCaptureLab) = 2
    BY <1>1, CdcParts
  <2>5. \A i \in 1..4 : s3[i] = IF i <= 2 THEN s2[i] ELSE CdcCaptureLab[i - 2]
    BY <2>3, <2>4
  <2> QED
    BY <2>3, <2>4, <2>5
<1> HIDE DEF s3
<1>3. /\ s4 \in Seq(Statements) /\ Len(s4) = 7
      /\ s4[1] = s3[1]
      /\ s4[2] = s3[2]
      /\ s4[3] = s3[3]
      /\ s4[4] = s3[4]
      /\ s4[5] = CdcReplicateLab[1]
      /\ s4[6] = CdcReplicateLab[2]
      /\ s4[7] = CdcReplicateLab[3]
  <2>1. s3 \in Seq(Statements) /\ CdcReplicateLab \in Seq(Statements)
    BY <1>2, CdcParts
  <2>2. s4 = s3 \o CdcReplicateLab
    BY DEF CdcSetup, s4, s3, s2
  <2>3. /\ s4 \in Seq(Statements) /\ Len(s4) = Len(s3) + Len(CdcReplicateLab)
        /\ \A i \in 1..(Len(s3) + Len(CdcReplicateLab)) :
             s4[i] = IF i <= Len(s3) THEN s3[i] ELSE CdcReplicateLab[i - Len(s3)]
    <3> HIDE DEF s4
    <3> QED
      BY <2>1, <2>2, Joined
  <2>4. Len(s3) = 4 /\ Len(CdcReplicateLab) = 3
    BY <1>2, CdcParts
  <2>5. \A i \in 1..7 : s4[i] = IF i <= 4 THEN s3[i] ELSE CdcReplicateLab[i - 4]
    BY <2>3, <2>4
  <2> QED
    BY <2>3, <2>4, <2>5
<1> HIDE DEF s4
<1>5. /\ CdcSetup \in Seq(Statements) /\ Len(CdcSetup) = 10
      /\ CdcSetup[1] = s4[1]
      /\ CdcSetup[2] = s4[2]
      /\ CdcSetup[3] = s4[3]
      /\ CdcSetup[4] = s4[4]
      /\ CdcSetup[5] = s4[5]
      /\ CdcSetup[6] = s4[6]
      /\ CdcSetup[7] = s4[7]
      /\ CdcSetup[8] = CdcChangelogLab[1]
      /\ CdcSetup[9] = CdcChangelogLab[2]
      /\ CdcSetup[10] = CdcChangelogLab[3]
  <2>1. s4 \in Seq(Statements) /\ CdcChangelogLab \in Seq(Statements)
    BY <1>3, CdcParts
  <2>2. CdcSetup = s4 \o CdcChangelogLab
    BY DEF CdcSetup, s4, s3, s2
  <2>3. /\ CdcSetup \in Seq(Statements) /\ Len(CdcSetup) = Len(s4) + Len(CdcChangelogLab)
        /\ \A i \in 1..(Len(s4) + Len(CdcChangelogLab)) :
             CdcSetup[i] = IF i <= Len(s4) THEN s4[i] ELSE CdcChangelogLab[i - Len(s4)]
    <3> QED
      BY <2>1, <2>2, Joined
  <2>4. Len(s4) = 7 /\ Len(CdcChangelogLab) = 3
    BY <1>3, CdcParts
  <2>5. \A i \in 1..10 : CdcSetup[i] = IF i <= 7 THEN s4[i] ELSE CdcChangelogLab[i - 7]
    BY <2>3, <2>4
  <2> QED
    BY <2>3, <2>4, <2>5
<1> QED
  BY <1>1, <1>2, <1>3, <1>5, CdcParts, Zenon

\* What cdc's set-up does at a position that has to do with jobs.
LEMMA CdcAt ==
  ASSUME NEW n \in 1..10
  PROVE  LET c == CdcSetup[n] IN
         /\ c.op = "submit" => \/ n = 3 /\ c.arg = {"lab3"}
                               \/ n = 6 /\ c.arg = {"lab4"}
                               \/ n = 9 /\ c.arg = {"lab5"}
         /\ c.op = "stop" => \/ n = 4 /\ c.arg = {"lab3"} /\ c.wait = 3
                             \/ n = 7 /\ c.arg = {"lab4"} /\ c.wait = 3
                             \/ n = 10 /\ c.arg = {"lab5"}
         /\ c.op \notin {"submit", "stop"} => n \in {1, 2, 5, 8} /\ c.op \in {"make", "drop"}
<1>1. n \in {1, 2, 3, 4, 5, 6, 7, 8, 9, 10}
  OBVIOUS
<1>2. CASE n \in {1, 2, 5, 8}
  BY <1>2, CdcOrder DEF Drop, Make, Statement
<1>3. CASE n = 3
  <2>1. CdcSetup[n] = Submit("lab3")
    BY <1>3, CdcOrder
  <2>2. Submit("lab3").op = "submit" /\ Submit("lab3").arg = {"lab3"}
    BY DEF Submit, Statement
  <2> QED
    BY <1>3, <2>1, <2>2
<1>5. CASE n = 6
  BY <1>5, CdcOrder DEF Submit, Statement
<1>6. CASE n = 9
  BY <1>6, CdcOrder DEF Submit, Statement
<1>4. CASE n \in {4, 7, 10}
  BY <1>4, CdcOrder DEF Stop, Statement
<1> QED
  BY <1>1, <1>2, <1>3, <1>4, <1>5, <1>6

LEMMA CdcDown ==
  /\ Len(CdcTeardown) = 2 /\ CdcTeardown[1].op = "stop_all" /\ CdcTeardown[2].op = "drop"
BY DEF CdcTeardown, Drop, Statement

LEMMA Closed == ASSUME NEW S, NEW s \in Seq(S), NEW t \in Seq(S) PROVE s \o t \in Seq(S)
OBVIOUS

\* The labs of nifi, those of edge first.
LEMMA NifiParts ==
  ASSUME NEW b
  PROVE  /\ EdgeSimulatorLab \in Seq(Quiet) /\ EdgeFlowLab \in Seq(Quiet)
         /\ EdgeExpandLab \in Seq(Quiet) /\ NifiSchemaLab \in Seq(Quiet)
         /\ NifiFlowLab(b) \in Seq(Quiet) /\ NifiScoreLab \in Seq(Quiet)
<1> USE QuietCalls
<1> HIDE DEF Quiet
<1>c. {"ssl", "registry", "reader", "lookup", "http_map", "keytab_svc", "sr_svc", "json_reader_svc",
       "json_reader_with_schema_svc", "rest_lookup_svc"} \subseteq Controllers
  BY DEF Controllers
<1>14. {"gen_data", "from_gw", "temp_funnel", "gateway", "consume_mqtt", "nifi_rpg", "consume_conn",
        "edge_bucket", "extract_proc", "filter_proc", "extracted", "valid", "schema", "bucket",
        "reg_client", "sensor_pg", "flow", "ssl", "keytab_svc", "sr_svc", "json_reader_svc",
        "pub_kafka", "pub_failures", "json_reader_with_schema_svc", "rest_lookup_svc", "predict",
        "write_kudu", "scored"} \subseteq Artefacts
  BY DEF Artefacts, Groups, Controllers, Processors, Connections, EdgeProcessors, EdgeConnections
<1>p. /\ \A S \in SUBSET {"gen_data", "pub_kafka", "predict", "write_kudu"} : S \in SUBSET Processors
      /\ {"consume_conn"} \in SUBSET Plains
  BY DEF Processors, Plains, Artefacts, Controllers, EdgeConnections
<1>15. /\ EdgeSimulatorLab \in Seq(Quiet) /\ EdgeFlowLab \in Seq(Quiet)
       /\ EdgeExpandLab \in Seq(Quiet)
  <2>1. EdgeSimulatorLab \in Seq(Quiet)
    BY <1>14, <1>p DEF EdgeSimulatorLab
  <2>2. EdgeFlowLab \in Seq(Quiet)
    BY <1>14 DEF EdgeFlowLab
  <2>3. EdgeExpandLab \in Seq(Quiet)
    BY <1>14, <1>p DEF EdgeExpandLab
  <2> QED
    BY <2>1, <2>2, <2>3
<1>16. NifiFlowLab(b) \in Seq(Quiet)
  <2>1. <<Control("ssl"), Control("keytab_svc")>> \in Seq(Quiet) /\ <<>> \in Seq(Quiet)
    BY <1>c
  <2>2. (IF b THEN <<Control("ssl"), Control("keytab_svc")>> ELSE <<>>) \in Seq(Quiet)
    BY <2>1
  <2>3. <<Find("bucket"), Make("reg_client"), Make("sensor_pg"), Make("flow")>> \in Seq(Quiet)
    BY <1>14
  <2>4. <<Control("sr_svc"), Control("json_reader_svc"), Make("pub_kafka"), Make("pub_failures"),
          Run({"gen_data", "pub_kafka"})>> \in Seq(Quiet)
    BY <1>14, <1>c, <1>p
  <2> QED
    BY <2>2, <2>3, <2>4, Closed, Zenon DEF NifiFlowLab
<1>17. NifiSchemaLab \in Seq(Quiet) /\ NifiScoreLab \in Seq(Quiet)
  BY <1>14, <1>c, <1>p DEF NifiSchemaLab, NifiScoreLab
<1> QED
  BY <1>15, <1>16, <1>17

LEMMA QuietSetups ==
  ASSUME NEW b
  PROVE  /\ SsbSetup \in Seq(Quiet) /\ FraudSetup(b) \in Seq(Quiet)
         /\ NifiSetup(b) \in Seq(Quiet) /\ DatavizSetup \in Seq(Quiet)
<1> USE QuietCalls
<1> HIDE DEF Quiet
<1>1. {"kafka", "kudu", "sr", "iot_enriched", "schema_avro", "bucket", "reg_client", "fraud_pg",
       "flow", "params", "ssl", "registry", "reader", "lookup", "score", "publish", "flattened",
       "kafka_failures", "generators_pg", "http_map", "generate", "handle", "response",
       "fraud_tables", "havetokm", "to_kudu_string", "viz_connection", "viz_dataset", "schema"}
        \subseteq Artefacts
  BY DEF Artefacts, Providers, Tables, Udfs, Groups, Controllers, Processors, Connections
<1>c. {"ssl", "registry", "reader", "lookup", "http_map", "keytab_svc", "sr_svc", "json_reader_svc",
       "json_reader_with_schema_svc", "rest_lookup_svc"} \subseteq Controllers
  BY DEF Controllers
<1>2. SsbKafkaLab \in Seq(Quiet) /\ SsbTableLab \in Seq(Quiet) /\ SsbRegistryLab \in Seq(Quiet)
  BY <1>1 DEF SsbKafkaLab, SsbTableLab, SsbRegistryLab
<1>3. SsbSetup \in Seq(Quiet)
  BY <1>2, Closed, Zenon DEF SsbSetup
<1>4. FraudFlowRegistry \in Seq(Quiet) /\ FraudParameters \in Seq(Quiet)
  BY <1>1 DEF FraudFlowRegistry, FraudParameters
<1>13. FraudSchemaLab \in Seq(Quiet) /\ DatavizSetup \in Seq(Quiet)
  BY <1>1 DEF FraudSchemaLab, DatavizSetup
<1>5. FraudControllers(b) \in Seq(Quiet)
  <2>1. <<Control("ssl")>> \in Seq(Quiet) /\ <<>> \in Seq(Quiet)
    BY <1>c
  <2>2. <<Control("registry"), Control("reader"), Control("lookup")>> \in Seq(Quiet)
    BY <1>c
  <2>3. (IF b THEN <<Control("ssl")>> ELSE <<>>) \in Seq(Quiet)
    BY <2>1
  <2> QED
    BY <2>2, <2>3, Closed, Zenon DEF FraudControllers
<1>6. FraudProcessors \in Seq(Quiet)
  BY <1>1 DEF FraudProcessors
<1>7. FraudGenerators \in Seq(Quiet)
  BY <1>1, <1>c DEF FraudGenerators
<1>8. FraudStart \in Seq(Quiet)
  BY DEF FraudStart
<1>9. FraudNifiLab(b) \in Seq(Quiet)
  BY <1>4, <1>5, <1>6, <1>7, <1>8, Closed, Zenon DEF FraudNifiLab
<1>10. /\ FraudKafkaLab \in Seq(Quiet) /\ FraudKuduLab \in Seq(Quiet)
       /\ FraudTablesLab \in Seq(Quiet) /\ FraudUdfLab \in Seq(Quiet)
  BY <1>1 DEF FraudKafkaLab, FraudKuduLab, FraudTablesLab, FraudUdfLab
<1>11. /\ FraudJobLab \in Seq(Quiet) /\ FraudConnectionLab \in Seq(Quiet)
       /\ FraudVizLab \in Seq(Quiet)
  BY <1>1 DEF FraudJobLab, FraudConnectionLab, FraudVizLab
<1>12. FraudSetup(b) \in Seq(Quiet)
  BY <1>9, <1>10, <1>11, <1>13, Closed, Zenon DEF FraudSetup
<1>15. /\ EdgeSimulatorLab \in Seq(Quiet) /\ EdgeFlowLab \in Seq(Quiet)
       /\ EdgeExpandLab \in Seq(Quiet) /\ NifiSchemaLab \in Seq(Quiet)
       /\ NifiFlowLab(b) \in Seq(Quiet) /\ NifiScoreLab \in Seq(Quiet)
  BY NifiParts
<1>16. EdgeSetup \in Seq(Quiet)
  BY <1>15, Closed, Zenon DEF EdgeSetup
<1>18. NifiSetup(b) \in Seq(Quiet)
  BY <1>15, <1>16, Closed, Zenon DEF NifiSetup
<1> QED
  BY <1>3, <1>12, <1>13, <1>18

LEMMA QuietTeardowns ==
  /\ SsbTeardown \in Seq(Quiet) /\ FraudTeardown \in Seq(Quiet)
  /\ NifiTeardown \in Seq(Quiet) /\ DatavizTeardown \in Seq(Quiet)
<1> USE QuietCalls
<1> HIDE DEF Quiet
<1>1. /\ \A S \in SUBSET {"viz_dataset", "viz_connection", "reg_client", "flow", "params", "schema",
                         "sr", "schema_avro", "iot_enriched", "kafka", "fraud_tables",
                         "from_gw", "temp_funnel", "nifi_rpg"} : S \in SUBSET Plains
      /\ Udfs \in SUBSET Plains /\ Providers \in SUBSET Plains
      /\ Connections \in SUBSET Plains /\ Processors \in SUBSET Plains
      /\ EdgeConnections \in SUBSET Plains /\ EdgeProcessors \in SUBSET Plains
      /\ {"generators_pg", "fraud_pg", "sensor_pg"} \subseteq Groups
  BY DEF Plains, Artefacts, Providers, Tables, Udfs, Groups, Controllers, Processors, Connections,
         EdgeConnections, EdgeProcessors
<1>2. SsbTeardown \in Seq(Quiet) /\ DatavizTeardown \in Seq(Quiet)
  BY <1>1 DEF SsbTeardown, DatavizTeardown
<1>3. DeleteAll \in Seq(Quiet)
  BY <1>1 DEF DeleteAll
<1>4. DeleteRegistered \in Seq(Quiet) /\ DeleteEdgeFlow \in Seq(Quiet)
  BY <1>1 DEF DeleteRegistered, DeleteEdgeFlow
<1>5. <<DeleteEach({"viz_dataset"}), DeleteEach({"viz_connection"}), Plain("halt"), Plain("disable"),
        Statement("stop_all", {}, 3), Drop({"fraud_tables"}), Plain("delete_jobs"),
        DeleteEach(Udfs), DeleteEach(Providers)>> \in Seq(Quiet)
  BY <1>1
<1>6. FraudTeardown \in Seq(Quiet)
  BY <1>3, <1>4, <1>5, Closed, Zenon DEF FraudTeardown
<1>7. <<Plain("halt"), Plain("disable")>> \in Seq(Quiet)
  OBVIOUS
<1>8. EdgeTeardown \in Seq(Quiet)
  BY <1>3, <1>4, <1>7, Closed, Zenon DEF EdgeTeardown
<1>9. NifiTeardown \in Seq(Quiet)
  BY <1>8, Closed, Zenon DEF NifiTeardown
<1> QED
  BY <1>2, <1>6, <1>9

-----------------------------------------------------------------------------
(* The invariant: who may hold the slot at each statement.                 *)

JobStates == {"none", "running", "stopping", "stopped", "failed"}

SlotTyped ==
  /\ workshop \in WorkshopIds /\ phase \in {"setup", "teardown"} /\ pc \in Nat \ {0}
  /\ jobs \in [JobNames -> JobStates] /\ left \in [JobNames -> 0..StopTime]

\* Before statement n of cdc's set-up the job j may be there.
MayHold(j, n) == \/ j = "lab3" /\ n = 4
                 \/ j = "lab4" /\ n = 7
                 \/ j = "lab5" /\ n \in {10, 11}

SlotInSetup ==
  workshop = "cdc" /\ phase = "setup" /\ status # "raised" =>
    \A j \in SlotJobs : Active(j) =>
      /\ MayHold(j, pc)
      /\ pc \in {4, 7} /\ step = "sleep" => jobs[j] = "stopping" /\ sleep \in left[j]..3

SlotInTeardown ==
  workshop = "cdc" /\ phase = "teardown" /\ status # "raised" =>
    /\ status = "done" => pc > 1
    /\ \A j \in SlotJobs : Active(j) =>
         /\ pc = 1
         /\ step # "list" => j \in todo
         /\ step = "sleep" => j # target

Timed == \A j \in JobNames : jobs[j] = "stopping" => left[j] > 0

OthersHoldNone == workshop # "cdc" => \A j \in SlotJobs : jobs[j] = "none"

SlotInv == /\ SlotTyped /\ SlotInSetup /\ SlotInTeardown /\ Timed /\ OthersHoldNone
           /\ JobsGetTheirSlot

\* The statement of the cdc process at its position.
LEMMA CdcNow ==
  ASSUME SlotTyped, workshop = "cdc", Running
  PROVE  LET c == Script[pc] IN
         /\ phase = "setup" =>
              /\ c.op = "submit" => \/ pc = 3 /\ c.arg = {"lab3"}
                                    \/ pc = 6 /\ c.arg = {"lab4"}
                                    \/ pc = 9 /\ c.arg = {"lab5"}
              /\ c.op = "stop" => \/ pc = 4 /\ c.arg = {"lab3"} /\ c.wait = 3
                                  \/ pc = 7 /\ c.arg = {"lab4"} /\ c.wait = 3
                                  \/ pc = 10 /\ c.arg = {"lab5"}
              /\ c.op \notin {"submit", "stop"} => pc \in {1, 2, 5, 8} /\ c.op \in {"make", "drop"}
         /\ phase = "teardown" => (pc = 1 /\ c.op = "stop_all") \/ (pc = 2 /\ c.op = "drop")
<1>1. CASE phase = "setup"
  <2>1. Script = CdcSetup
    BY <1>1 DEF Script, SetupOf
  <2>2. pc \in 1..10
    BY <2>1, CdcOrder DEF SlotTyped, Running
  <2> QED
    BY <1>1, <2>1, <2>2, CdcAt
<1>2. CASE phase = "teardown"
  <2>1. Script = CdcTeardown
    BY <1>2 DEF Script, TeardownOf
  <2>2. pc = 1 \/ pc = 2
    BY <2>1, CdcDown DEF SlotTyped, Running
  <2>3. (pc = 1 /\ Script[pc].op = "stop_all") \/ (pc = 2 /\ Script[pc].op = "drop")
    BY <2>1, <2>2, CdcDown
  <2> QED
    BY <1>2, <2>3
<1> QED
  BY <1>1, <1>2 DEF SlotTyped

\* Another workshop's process submits only the fraud detection.
LEMMA QuietNow ==
  ASSUME KnownWorkshops, SlotTyped, workshop # "cdc", Running, Script[pc].op = "submit"
  PROVE  Script[pc].arg = {"fraud_detection_job"}
<1>1. workshop \in {"ssb", "fraud", "nifi", "dataviz"}
  BY DEF KnownWorkshops, SlotTyped
<1>2. Script \in Seq(Quiet)
  <2>1. /\ SsbSetup \in Seq(Quiet) /\ FraudSetup(tls) \in Seq(Quiet)
        /\ NifiSetup(tls) \in Seq(Quiet) /\ DatavizSetup \in Seq(Quiet)
    BY QuietSetups
  <2> HIDE DEF Quiet
  <2> QED
    BY <1>1, <2>1, QuietTeardowns DEF Script, SetupOf, TeardownOf, SlotTyped
<1>3. Script[pc] \in Quiet
  <2> HIDE DEF Quiet
  <2>1. pc \in 1..Len(Script)
    <3>1. Len(Script) \in Nat
      BY <1>2
    <3> QED
      BY <3>1 DEF SlotTyped, Running
  <2> QED
    BY <1>2, <2>1
<1> QED
  BY <1>3 DEF Quiet, Submit, Statement

LEMMA Chosen == ASSUME NEW e PROVE (CHOOSE x \in {e} : TRUE) = e
OBVIOUS

-----------------------------------------------------------------------------
(* The steps.                                                              *)

LEMMA InitSlot == ASSUME Init PROVE SlotInv
<1>1. \A j \in JobNames : jobs[j] = "none" /\ left[j] = 0
  BY DEF Init
<1>2. SlotTyped
  <2>1. jobs \in [JobNames -> JobStates] /\ left \in [JobNames -> 0..StopTime]
    BY StopTimeAssumption DEF Init, JobStates
  <2> QED
    BY <2>1 DEF Init, SlotTyped
<1>3. SlotJobs \subseteq JobNames
  BY DEF SlotJobs, JobNames
<1> QED
  BY <1>1, <1>2, <1>3 DEF Init, SlotInv, SlotInSetup, SlotInTeardown, Timed, OthersHoldNone,
                          JobsGetTheirSlot, Active

\* What every step but a submission does to the jobs.
Milder ==
  /\ jobs' \in [JobNames -> JobStates] /\ left' \in [JobNames -> 0..StopTime]
  /\ Timed' /\ JobsGetTheirSlot'
  /\ \A i \in SlotJobs : Active(i)' => Active(i)
  /\ \A i \in SlotJobs : jobs[i] = "none" => jobs'[i] = "none"

\* A call that raised, whatever it did to the jobs before.
LEMMA RaisedSlot ==
  ASSUME SlotInv, status' = "raised", UNCHANGED <<workshop, phase, pc>>, Milder
  PROVE  SlotInv'
BY DEF Milder, SlotInv, SlotTyped, SlotInSetup, SlotInTeardown, OthersHoldNone

\* A step of another workshop that starts no job of cdc.
LEMMA OtherSlot ==
  ASSUME SlotInv, workshop # "cdc", UNCHANGED <<workshop, phase>>, pc' = pc \/ pc' = pc + 1, Milder
  PROVE  SlotInv'
BY DEF Milder, SlotInv, SlotTyped, SlotInSetup, SlotInTeardown, OthersHoldNone

LEMMA SameJobs == ASSUME SlotInv, UNCHANGED <<jobs, left>> PROVE Milder
<1>1. SlotJobs \subseteq JobNames
  BY DEF SlotJobs, JobNames
<1> QED
  BY <1>1 DEF Milder, SlotInv, SlotTyped, Timed, JobsGetTheirSlot, Active

\* The calls that make and delete what is no job.
LEMMA CallsSlot ==
  ASSUME SlotInv, Calls \/ (Canvas /\ UNCHANGED jobVars)
  PROVE  SlotInv'
<1>1. /\ Running /\ UNCHANGED <<workshop, phase, jobs, left, sleep>>
      /\ pc' = pc \/ pc' = pc + 1
      /\ status' \in {"running", "raised"}
      /\ status' = "raised" => pc' = pc
      /\ Script[pc].op \notin {"submit", "stop", "stop_all"}
  <2>1. CASE MakeArtefact
    BY <2>1 DEF MakeArtefact, Now, Running, Refused, Raise, Done, Lost, jobVars
  <2>2. CASE FindArtefact
    BY <2>2 DEF FindArtefact, Now, Running, Refused, Raise, Done, Lost, jobVars
  <2>3. CASE DropArtefacts
    BY <2>3 DEF DropArtefacts, Now, Running, Refused, Raise, Done, Lost, jobVars
  <2>4. CASE DeleteArtefacts
    BY <2>4 DEF DeleteArtefacts, Now, Running, Refused, Raise, Done, Lost, List, LoopEnds,
                Visited, GoOn, jobVars
  <2>5. CASE Canvas /\ UNCHANGED jobVars
    BY <2>5 DEF Canvas, CreateController, StartFlow, RunProcessors, StopCanvas, DisableControllers, DeleteGroup,
                Now, Running, Refused, Raise, Done, Lost, List, LoopEnds, Visited, GoOn, jobVars
  <2> QED
    BY <2>1, <2>2, <2>3, <2>4, <2>5 DEF Calls
<1>2. CASE workshop # "cdc"
  BY <1>1, <1>2 DEF SlotInv, SlotTyped, SlotInSetup, SlotInTeardown, Timed, OthersHoldNone,
                    JobsGetTheirSlot, Active, JobStates
<1>3. CASE workshop = "cdc" /\ phase = "setup"
  <2>1. pc \in {1, 2, 5, 8}
    BY <1>1, <1>3, CdcNow DEF SlotInv
  <2>2. \A j \in SlotJobs : ~Active(j)
    BY <1>1, <1>3, <2>1 DEF SlotInv, SlotInSetup, MayHold, Running
  <2> QED
    BY <1>1, <1>3, <2>1, <2>2 DEF SlotInv, SlotTyped, SlotInSetup, SlotInTeardown, Timed,
         OthersHoldNone, JobsGetTheirSlot, Active, JobStates
<1>4. CASE workshop = "cdc" /\ phase = "teardown"
  <2>1. pc = 2
    BY <1>1, <1>4, CdcNow DEF SlotInv
  <2>2. \A j \in SlotJobs : ~Active(j)
    BY <1>1, <1>4, <2>1 DEF SlotInv, SlotInTeardown, Running
  <2> QED
    BY <1>1, <1>4, <2>1, <2>2 DEF SlotInv, SlotTyped, SlotInSetup, SlotInTeardown, Timed,
         OthersHoldNone, JobsGetTheirSlot, Active, JobStates
<1> QED
  BY <1>2, <1>3, <1>4 DEF SlotInv, SlotTyped

\* The deletion whose refusal is swallowed.
LEMMA IgnoredSlot ==
  ASSUME SlotInv, RefusalIgnored
  PROVE  SlotInv'
<1>1. /\ Running /\ Script[pc].op = "try" /\ UNCHANGED <<workshop, phase, jobs, left>>
      /\ pc' = pc + 1
  BY DEF RefusalIgnored, Now, jobVars
<1>2. workshop # "cdc"
  BY <1>1, CdcNow DEF SlotInv, SlotTyped
<1> QED
  BY <1>1, <1>2, SameJobs, OtherSlot

\* A job is submitted when nobody has the slot.
LEMMA SubmitSlot ==
  ASSUME KnownWorkshops, SlotInv, SubmitJob
  PROVE  SlotInv'
<1>1. /\ Running /\ UNCHANGED <<workshop, phase, left, sleep>>
      /\ Script[pc].op = "submit"
      /\ jobs' = [jobs EXCEPT ![The] = IF The \in SlotJobs /\ SlotTaken THEN "failed" ELSE "running"]
      /\ \/ status' = "running" /\ pc' = pc + 1 /\ step' = "list"
         \/ status' = "raised" /\ pc' = pc
  BY DEF SubmitJob, Now, Running, Done, Lost, Raise
<1>2. CASE workshop # "cdc"
  <2>1. The = "fraud_detection_job"
    BY <1>1, <1>2, QuietNow, Chosen DEF SlotInv, The, Arg
  <2>2. The \notin SlotJobs /\ The \in JobNames
    BY <2>1 DEF SlotJobs, JobNames
  <2>3. jobs' = [jobs EXCEPT ![The] = "running"]
    BY <1>1, <2>2
  <2> QED
    BY <1>1, <1>2, <2>2, <2>3 DEF SlotInv, SlotTyped, SlotInSetup, SlotInTeardown, Timed,
         OthersHoldNone, JobsGetTheirSlot, JobStates
<1>3. CASE workshop = "cdc"
  <2>1. /\ phase = "setup"
        /\ \/ pc = 3 /\ Arg = {"lab3"}
           \/ pc = 6 /\ Arg = {"lab4"}
           \/ pc = 9 /\ Arg = {"lab5"}
    BY <1>1, <1>3, CdcNow DEF SlotInv, SlotTyped, Arg
  <2>2. \/ pc = 3 /\ The = "lab3"
        \/ pc = 6 /\ The = "lab4"
        \/ pc = 9 /\ The = "lab5"
    BY <2>1, Chosen DEF The
  <2>3. \A j \in SlotJobs : ~Active(j)
    BY <1>1, <1>3, <2>1 DEF SlotInv, SlotInSetup, MayHold, Running
  <2>4. jobs' = [jobs EXCEPT ![The] = "running"] /\ The \in JobNames
    BY <1>1, <2>2, <2>3 DEF SlotTaken, JobNames
  <2>5. \A j \in SlotJobs : j # The => ~Active(j)'
    BY <2>3, <2>4 DEF Active, SlotInv, SlotTyped
  <2>6. status' # "raised" => MayHold(The, pc') /\ step' = "list"
    BY <1>1, <2>2 DEF MayHold
  <2>7. SlotTyped' /\ Timed' /\ JobsGetTheirSlot'
    BY <1>1, <2>4 DEF SlotInv, SlotTyped, Timed, JobsGetTheirSlot, JobStates
  <2> QED
    BY <1>1, <1>3, <2>1, <2>5, <2>6, <2>7 DEF SlotInv, SlotInSetup, SlotInTeardown, OthersHoldNone
<1> QED
  BY <1>2, <1>3

\* What a request to stop a job does to it.
LEMMA StoppedSlot ==
  ASSUME SlotInv, NEW j, Stopped(j)
  PROVE  /\ Milder
         /\ \A i \in SlotJobs : i = j => jobs'[i] # "running"
<1>1. SlotJobs \subseteq JobNames
  BY DEF SlotJobs, JobNames
<1>2. CASE jobs[j] = "running"
  <2>1. PICK d \in 0..StopTime :
          /\ jobs' = [jobs EXCEPT ![j] = IF d = 0 THEN "stopped" ELSE "stopping"]
          /\ left' = [left EXCEPT ![j] = d]
    BY <1>2 DEF Stopped
  <2>2. jobs' \in [JobNames -> JobStates] /\ left' \in [JobNames -> 0..StopTime]
    BY <2>1 DEF SlotInv, SlotTyped, JobStates
  <2>3. \A i \in JobNames :
          /\ i # j => jobs'[i] = jobs[i] /\ left'[i] = left[i]
          /\ i = j => jobs'[i] = (IF d = 0 THEN "stopped" ELSE "stopping") /\ left'[i] = d
    BY <2>1 DEF SlotInv, SlotTyped
  <2> QED
    BY <1>1, <1>2, <2>2, <2>3, StopTimeAssumption
    DEF Milder, SlotInv, Timed, JobsGetTheirSlot, Active, SlotTyped
<1>3. CASE jobs[j] # "running"
  BY <1>3, SameJobs DEF Stopped
<1> QED
  BY <1>2, <1>3

LEMMA StopNamedSlot ==
  ASSUME StopsInTime, SlotInv, StopNamed
  PROVE  SlotInv'
<1>1. Running /\ Script[pc].op = "stop" /\ UNCHANGED <<workshop, phase>>
  BY DEF StopNamed, Now, Refused, Raise, Lost, Done, GoOn
<1>2. \/ step = "list" /\ Stopped(The)
      \/ UNCHANGED <<jobs, left>>
  BY DEF StopNamed
<1>3. Milder
  BY <1>2, SameJobs, StoppedSlot
<1>4. \/ status' = "raised" /\ pc' = pc
      \/ /\ status' = "running" /\ pc' = pc /\ step' = "sleep" /\ Stopped(The)
         /\ sleep' = Script[pc].wait
      \/ /\ step = "sleep" /\ sleep = 0 /\ status' = "running" /\ pc' = pc + 1 /\ step' = "list"
         /\ UNCHANGED <<jobs, left>>
  BY DEF StopNamed, Now, Running, Refused, Raise, Lost, Done, GoOn
<1>5. CASE status' = "raised" /\ pc' = pc
  BY <1>1, <1>3, <1>5, RaisedSlot
<1>6. CASE workshop # "cdc"
  BY <1>1, <1>3, <1>4, <1>6, OtherSlot
<1>7. CASE workshop = "cdc" /\ status' = "running"
  <2>1. /\ phase = "setup"
        /\ \/ pc = 4 /\ Arg = {"lab3"} /\ Script[pc].wait = 3
           \/ pc = 7 /\ Arg = {"lab4"} /\ Script[pc].wait = 3
           \/ pc = 10 /\ Arg = {"lab5"}
    BY <1>1, <1>7, CdcNow DEF SlotInv, SlotTyped, Arg
  <2>2. \/ pc = 4 /\ The = "lab3" /\ Script[pc].wait = 3
        \/ pc = 7 /\ The = "lab4" /\ Script[pc].wait = 3
        \/ pc = 10 /\ The = "lab5"
    BY <2>1, Chosen DEF The
  <2>3. \A j \in SlotJobs : Active(j)' => j = The
    BY <1>1, <1>3, <1>7, <2>1, <2>2 DEF Milder, SlotInv, SlotInSetup, MayHold, Running
  <2>4. MayHold(The, pc) /\ (pc = 10 => MayHold(The, pc + 1))
    BY <2>2 DEF MayHold
  <2>5. SlotTyped' /\ SlotInTeardown' /\ OthersHoldNone'
    BY <1>1, <1>3, <1>4, <1>7, <2>1 DEF Milder, SlotInv, SlotTyped, SlotInTeardown, OthersHoldNone
  <2>6. CASE pc' = pc /\ step' = "sleep" /\ Stopped(The) /\ sleep' = Script[pc].wait
    <3>1. \A j \in SlotJobs : Active(j)' => jobs'[j] = "stopping" /\ left'[j] \in 0..StopTime
      <4>1. \A j \in SlotJobs : Active(j)' => jobs'[j] # "running"
        BY <2>3, <2>6, StoppedSlot
      <4>2. SlotJobs \subseteq JobNames
        BY DEF SlotJobs, JobNames
      <4> QED
        BY <1>3, <4>1, <4>2 DEF Active, Milder
    <3>2. pc \in {4, 7} => sleep' = 3
      BY <2>2, <2>6
    <3> QED
      BY <1>3, <1>7, <2>3, <2>4, <2>5, <2>6, <3>1, <3>2, StopTimeAssumption
      DEF StopsInTime, Milder, SlotInv, SlotInSetup
  <2>7. CASE /\ step = "sleep" /\ sleep = 0 /\ pc' = pc + 1 /\ step' = "list"
             /\ UNCHANGED <<jobs, left>>
    <3>1. pc \in {4, 7} => \A j \in SlotJobs : ~Active(j)
      <4>1. SUFFICES ASSUME pc \in {4, 7}, NEW j \in SlotJobs, Active(j) PROVE FALSE
        OBVIOUS
      <4>2. jobs[j] = "stopping" /\ 0 \in left[j]..3
        BY <1>1, <1>7, <2>1, <2>7, <4>1 DEF SlotInv, SlotInSetup, Running
      <4>3. left[j] > 0 /\ left[j] \in Int
        BY <4>2, StopTimeAssumption DEF SlotInv, SlotTyped, Timed, SlotJobs, JobNames
      <4> QED
        BY <4>2, <4>3
    <3>2. \A j \in SlotJobs : Active(j)' => pc = 10
      BY <2>1, <2>7, <3>1 DEF Active
    <3> QED
      BY <1>3, <1>7, <2>3, <2>4, <2>5, <2>7, <3>2 DEF Milder, SlotInv, SlotInSetup
  <2> QED
    BY <1>4, <1>7, <2>6, <2>7
<1> QED
  BY <1>4, <1>5, <1>6, <1>7

LEMMA StopAllSlot ==
  ASSUME SlotInv, StopAllJobs
  PROVE  SlotInv'
<1>1. Running /\ Script[pc].op = "stop_all" /\ UNCHANGED <<workshop, phase>>
  BY DEF StopAllJobs, StopById, Now, Refused, Raise, Lost, Done, GoOn, List, Visited, LoopEnds
<1>2. \/ status' = "raised" /\ pc' = pc /\ ((\E j \in todo : Stopped(j)) \/ UNCHANGED <<jobs, left>>)
      \/ /\ step = "call" /\ step' = "poll" /\ todo' = todo /\ \E j \in todo : Stopped(j)
         /\ status' = "running" /\ pc' = pc
      \/ /\ step = "poll" /\ ~Active(target) /\ step' = "sleep" /\ UNCHANGED <<todo, target>>
         /\ status' = "running" /\ pc' = pc /\ UNCHANGED <<jobs, left>>
      \/ /\ step' = "call" /\ todo' = {j \in JobNames : Active(j)}
         /\ status' = "running" /\ pc' = pc /\ UNCHANGED <<jobs, left>>
      \/ /\ step = "sleep" /\ todo' = todo \ {target} /\ step' = "call"
         /\ status' = "running" /\ pc' = pc /\ UNCHANGED <<jobs, left>>
      \/ /\ step = "call" /\ todo = {} /\ pc' = pc + 1 /\ step' = "list"
         /\ status' = "running" /\ UNCHANGED <<jobs, left>>
  BY DEF StopAllJobs, StopById, Now, Running, Refused, Raise, Lost, Done, GoOn, List, Visited, LoopEnds
<1>3. Milder
  BY <1>2, SameJobs, StoppedSlot
<1>4. CASE status' = "raised"
  BY <1>1, <1>2, <1>3, <1>4, RaisedSlot
<1>5. CASE workshop # "cdc"
  BY <1>1, <1>2, <1>3, <1>5, OtherSlot
<1>6. CASE workshop = "cdc" /\ status' # "raised"
  <2>1. phase = "teardown" /\ pc = 1 /\ status = "running"
    BY <1>1, <1>6, CdcNow DEF SlotInv, SlotTyped, Running
  <2>2. SlotTyped' /\ SlotInSetup' /\ OthersHoldNone'
    BY <1>1, <1>2, <1>3, <1>6, <2>1 DEF Milder, SlotInv, SlotTyped, SlotInSetup, OthersHoldNone
  <2>3. status' = "running"
    BY <1>2, <1>6
  <2>4. \A j \in SlotJobs : Active(j) => (step # "list" => j \in todo) /\ (step = "sleep" => j # target)
    BY <1>6, <2>1 DEF SlotInv, SlotInTeardown
  <2>5. ASSUME NEW j \in SlotJobs, Active(j)'
        PROVE  pc' = 1 /\ (step' # "list" => j \in todo') /\ (step' = "sleep" => j # target')
    <3>1. Active(j) /\ j \in JobNames
      BY <1>3, <2>5 DEF Milder, SlotJobs, JobNames
    <3> QED
      BY <1>2, <1>6, <2>1, <2>4, <3>1
  <2> QED
    BY <1>3, <2>2, <2>3, <2>5 DEF Milder, SlotInv, SlotInTeardown
<1> QED
  BY <1>4, <1>5, <1>6

LEMMA DeleteAllSlot ==
  ASSUME SlotInv, DeleteAllJobs
  PROVE  SlotInv'
<1>1. /\ Running /\ Script[pc].op = "delete_jobs" /\ UNCHANGED <<workshop, phase>>
      /\ pc' = pc \/ pc' = pc + 1
  BY DEF DeleteAllJobs, StopById, Now, Refused, Raise, Lost, Done, GoOn, List, Visited, LoopEnds
<1>2. \/ \E j \in todo : Stopped(j)
      \/ UNCHANGED <<jobs, left>>
      \/ jobs' = [jobs EXCEPT ![target] = "none"] /\ left' = left
  BY DEF DeleteAllJobs, StopById
<1>3. workshop # "cdc"
  BY <1>1, CdcNow DEF SlotInv, SlotTyped
<1>4. Milder
  <2>1. CASE jobs' = [jobs EXCEPT ![target] = "none"] /\ left' = left
    <3>1. SlotJobs \subseteq JobNames
      BY DEF SlotJobs, JobNames
    <3>2. jobs' \in [JobNames -> JobStates]
      BY <2>1 DEF SlotInv, SlotTyped, JobStates
    <3>3. \A i \in JobNames : jobs'[i] = jobs[i] \/ jobs'[i] = "none"
      BY <2>1 DEF SlotInv, SlotTyped
    <3> QED
      BY <2>1, <3>1, <3>2, <3>3 DEF Milder, SlotInv, SlotTyped, Timed, JobsGetTheirSlot, Active
  <2> QED
    BY <1>2, <2>1, SameJobs, StoppedSlot
<1> QED
  BY <1>1, <1>3, <1>4, OtherSlot

\* Time passes, and jobs end.
LEMMA TimeSlot ==
  ASSUME SlotInv, JobDies \/ Second
  PROVE  SlotInv'
<1>1. UNCHANGED <<workshop, phase, status, pc, step, todo, target>>
  BY DEF JobDies, Second, processVars
<1>2. SlotJobs \subseteq JobNames
  BY DEF SlotJobs, JobNames
<1>3. CASE JobDies
  <2>1. PICK d \in JobNames : jobs[d] = "running" /\ jobs' = [jobs EXCEPT ![d] = "stopped"]
    BY <1>3 DEF JobDies
  <2>2. left' = left /\ sleep' = sleep
    BY <1>3 DEF JobDies
  <2>3. jobs' \in [JobNames -> JobStates]
    BY <2>1 DEF SlotInv, SlotTyped, JobStates
  <2>4. \A i \in JobNames : jobs'[i] = jobs[i] \/ jobs'[i] = "stopped"
    BY <2>1 DEF SlotInv, SlotTyped
  <2>5. \A i \in SlotJobs : jobs[i] = "none" => jobs'[i] = "none"
    BY <1>2, <2>1 DEF SlotInv, SlotTyped
  <2> QED
    BY <1>1, <1>2, <2>2, <2>3, <2>4, <2>5 DEF SlotInv, SlotTyped, SlotInSetup, SlotInTeardown,
         Timed, OthersHoldNone, JobsGetTheirSlot, Active
<1>4. CASE Second
  <2>1. /\ \A j \in JobNames : left'[j] = (IF left[j] > 0 THEN left[j] - 1 ELSE 0)
        /\ \A j \in JobNames :
             jobs'[j] = (IF jobs[j] = "stopping" /\ left[j] <= 1 THEN "stopped" ELSE jobs[j])
        /\ sleep' = IF sleep > 0 THEN sleep - 1 ELSE 0
    BY <1>4 DEF Second
  <2>2. \A j \in JobNames : left[j] \in 0..StopTime /\ jobs[j] \in JobStates
    BY DEF SlotInv, SlotTyped
  <2>3. jobs' \in [JobNames -> JobStates] /\ left' \in [JobNames -> 0..StopTime]
    <3>1. jobs' = [j \in JobNames |->
                     IF jobs[j] = "stopping" /\ left[j] <= 1 THEN "stopped" ELSE jobs[j]]
          /\ left' = [j \in JobNames |-> IF left[j] > 0 THEN left[j] - 1 ELSE 0]
      BY <1>4 DEF Second
    <3> QED
      BY <2>2, <3>1, StopTimeAssumption DEF JobStates
  <2>4. Timed' /\ JobsGetTheirSlot' /\ OthersHoldNone'
    BY <1>1, <1>2, <2>1, <2>2, StopTimeAssumption
    DEF SlotInv, Timed, JobsGetTheirSlot, OthersHoldNone
  <2>5. SlotInTeardown'
    BY <1>1, <1>2, <2>1 DEF SlotInv, SlotInTeardown, Active
  <2>6. SlotInSetup'
    <3>1. SUFFICES ASSUME workshop = "cdc", phase = "setup", status # "raised",
                          NEW j \in SlotJobs, Active(j)'
                   PROVE  /\ MayHold(j, pc)
                          /\ pc \in {4, 7} /\ step = "sleep" => jobs'[j] = "stopping" /\ sleep' \in left'[j]..3
      BY <1>1 DEF SlotInSetup
    <3>2. Active(j)
      BY <1>2, <2>1, <3>1 DEF Active
    <3>3. CASE pc \in {4, 7} /\ step = "sleep"
      <4>1. jobs[j] = "stopping" /\ sleep \in left[j]..3 /\ MayHold(j, pc)
        BY <3>1, <3>2, <3>3 DEF SlotInv, SlotInSetup
      <4>2. left[j] > 1 /\ jobs'[j] = "stopping" /\ left'[j] = left[j] - 1
        BY <1>2, <2>1, <2>2, <3>1, <4>1, StopTimeAssumption DEF Active
      <4> QED
        BY <1>2, <2>1, <2>2, <4>1, <4>2, StopTimeAssumption
    <3> QED
      BY <3>1, <3>2, <3>3 DEF SlotInv, SlotInSetup
  <2> QED
    BY <1>1, <2>3, <2>4, <2>5, <2>6 DEF SlotInv, SlotTyped
<1> QED
  BY <1>3, <1>4

\* A process ends, and the next one starts.
LEMMA EndSlot ==
  ASSUME SlotInv, ProcessEnds, UNCHANGED jobVars
  PROVE  SlotInv'
<1>1. /\ UNCHANGED <<workshop, phase, pc, step, todo, target, jobs, left, sleep>>
      /\ status = "running" /\ status' = "done" /\ pc > Len(Script)
  BY DEF ProcessEnds, jobVars
<1>2. workshop = "cdc" /\ phase = "teardown" => pc > 1
  <2>1. workshop = "cdc" /\ phase = "teardown" => Script = CdcTeardown
    BY DEF Script, TeardownOf
  <2> QED
    BY <1>1, <2>1, CdcDown DEF SlotInv, SlotTyped
<1> QED
  BY <1>1, <1>2 DEF SlotInv, SlotTyped, SlotInSetup, SlotInTeardown, Timed, OthersHoldNone,
                    JobsGetTheirSlot, Active

LEMMA NextSlot ==
  ASSUME SlotInv, NextProcess
  PROVE  SlotInv'
<1>1. /\ UNCHANGED <<workshop, jobs, left>> /\ pc' = 1 /\ step' = "list" /\ status' = "running"
      /\ phase' = IF phase = "teardown" /\ status = "done" THEN "setup" ELSE "teardown"
  BY DEF NextProcess, jobVars
<1>2. SlotTyped' /\ Timed' /\ JobsGetTheirSlot' /\ OthersHoldNone' /\ SlotInTeardown'
  BY <1>1 DEF SlotInv, SlotTyped, Timed, JobsGetTheirSlot, OthersHoldNone, SlotInTeardown
<1>3. SlotInSetup'
  BY <1>1 DEF SlotInv, SlotInSetup, SlotInTeardown, Active
<1> QED
  BY <1>2, <1>3 DEF SlotInv

\* No job of cdc is ever started while another one has the replication slot
\* (ssb.py:547), for any number of processes and of lost calls: when the labs
\* sleep at least as long as a job takes to stop, each lab's job is gone before
\* the next lab starts its own, and no set-up starts before a teardown went through.
THEOREM SlotIsFree ==
  ASSUME StopsInTime, KnownWorkshops
  PROVE  Spec => []JobsGetTheirSlot
<1>1. Init => SlotInv
  BY InitSlot
<1>2. SlotInv /\ [Next]_vars => SlotInv'
  <2>1. SUFFICES ASSUME SlotInv, [Next]_vars PROVE SlotInv'
    OBVIOUS
  <2>2. CASE Calls \/ (Canvas /\ UNCHANGED jobVars)
    BY <2>1, <2>2, CallsSlot
  <2>3. CASE Jobs
    BY <2>1, <2>3, SubmitSlot, StopNamedSlot, StopAllSlot, DeleteAllSlot DEF Jobs
  <2>4. CASE ProcessEnds /\ UNCHANGED jobVars
    BY <2>1, <2>4, EndSlot
  <2>5. CASE CallIsLost
    <3>1. status' = "raised" /\ UNCHANGED <<workshop, phase, pc, jobs, left>>
      BY <2>5 DEF CallIsLost, Lost, Raise, jobVars
    <3> QED
      BY <2>1, <3>1, RaisedSlot, SameJobs
  <2>6. CASE JobDies \/ Second
    BY <2>1, <2>6, TimeSlot
  <2>7. CASE NextProcess
    BY <2>1, <2>7, NextSlot
  <2>8. CASE UNCHANGED vars
    <3>1. UNCHANGED <<workshop, phase, status, pc, step, todo, jobs, left, sleep, target>>
      BY <2>8 DEF vars, processVars, jobVars
    <3> QED
      BY <2>1, <3>1 DEF SlotInv, SlotTyped, SlotInSetup, SlotInTeardown, Timed, OthersHoldNone,
                        JobsGetTheirSlot, Active
  <2>9. CASE RefusalIgnored
    BY <2>1, <2>9, IgnoredSlot
  <2> QED
    BY <2>1, <2>2, <2>3, <2>4, <2>5, <2>6, <2>7, <2>8, <2>9 DEF Next, Work, Process
<1>3. SlotInv => JobsGetTheirSlot
  BY DEF SlotInv
<1> QED
  BY <1>1, <1>2, <1>3, PTL DEF Spec
-----------------------------------------------------------------------------
(* Type correctness.  What a loop visits is what its statement lists: that  *)
(* is why a loop over jobs never stops a controller.                        *)

LEMMA ScriptsTyped ==
  ASSUME KnownWorkshops, NEW w \in WorkshopIds, NEW b
  PROVE  SetupOf(w, b) \in Seq(Statements) /\ TeardownOf(w) \in Seq(Statements)
<1> HIDE DEF Quiet
<1>1. \A s \in Seq(Quiet) : s \in Seq(Statements)
  BY DEF Statements
<1> HIDE DEF Statements
<1>2. CASE w = "cdc"
  <2>1. CdcTeardown \in Seq(Statements)
    <3>1. Statement("stop_all", {}, 0) \in Statements
      BY QuietCalls DEF Statements
    <3>2. CdcTables \in SUBSET Plains
      BY DEF CdcTables, Plains, Artefacts, Tables, Controllers
    <3>3. Drop(CdcTables) \in Statements
      BY <3>2, Typed
    <3> QED
      BY <3>1, <3>3 DEF CdcTeardown
  <2> QED
    BY <1>2, <2>1, CdcOrder DEF SetupOf, TeardownOf
<1>3. CASE w # "cdc"
  <2>1. w \in {"ssb", "fraud", "nifi", "dataviz"}
    BY <1>3 DEF KnownWorkshops
  <2>2. SetupOf(w, b) \in Seq(Quiet)
    <3>1. /\ SsbSetup \in Seq(Quiet) /\ FraudSetup(b) \in Seq(Quiet)
          /\ NifiSetup(b) \in Seq(Quiet) /\ DatavizSetup \in Seq(Quiet)
      BY QuietSetups
    <3> QED
      BY <2>1, <3>1 DEF SetupOf
  <2>3. TeardownOf(w) \in Seq(Quiet)
    BY <2>1, QuietTeardowns DEF TeardownOf
  <2> QED
    BY <1>1, <2>2, <2>3
<1> QED
  BY <1>2, <1>3

\* What a statement of each kind is about.
LEMMA Says ==
  ASSUME NEW c \in Statements
  PROVE  /\ c.op \in {"make", "find"} => \E x \in Artefacts : c.arg = {x}
         /\ c.op = "control" => \E x \in Controllers : c.arg = {x}
         /\ c.op \in {"drop", "try", "delete"} => c.arg \subseteq Artefacts /\ c.arg \cap Controllers = {}
         /\ c.op = "run" => c.arg \subseteq Processors
         /\ c.op = "ungroup" => \E x \in Groups : c.arg = {x}
         /\ c.op \in {"submit", "stop"} => \E j \in JobNames : c.arg = {j}
         /\ c.wait \in Nat
<1>1. /\ c.op \in {"make", "find"} => \E x \in Artefacts : c.arg = {x}
      /\ c.op = "control" => \E x \in Controllers : c.arg = {x}
  BY DEF Statements, Quiet, Submit, Statement
<1>2. c.op \in {"drop", "try", "delete"} => c.arg \subseteq Artefacts /\ c.arg \cap Controllers = {}
  BY DEF Statements, Quiet, Submit, Statement, Plains
<1>3. /\ c.op = "run" => c.arg \subseteq Processors
      /\ c.op = "ungroup" => \E x \in Groups : c.arg = {x}
  BY DEF Statements, Quiet, Submit, Statement
<1>4. c.op \in {"submit", "stop"} => \E j \in JobNames : c.arg = {j}
  BY DEF Statements, Quiet, Submit, Statement, JobNames
<1>5. c.wait \in Nat
  BY DEF Statements, Quiet, Submit, Statement
<1> QED
  BY <1>1, <1>2, <1>3, <1>4, <1>5

\* What the loop of the statement under way may list.
Listed ==
  IF pc \notin 1..Len(Script) THEN {}
  ELSE CASE Script[pc].op \in {"stop_all", "delete_jobs"} -> JobNames
         [] Script[pc].op = "disable" -> Controllers
         [] Script[pc].op = "delete" -> Script[pc].arg
         [] OTHER -> {}

ProcessTyped ==
  /\ workshop \in WorkshopIds /\ tls \in BOOLEAN
  /\ phase \in {"setup", "teardown"} /\ status \in {"running", "done", "raised"}
  /\ pc \in 1..Len(Script) + 1 /\ step \in {"list", "call", "poll", "sleep"}
  /\ hurt \in BOOLEAN /\ faults \in 0..MaxFaults
  /\ todo \subseteq Listed

JobsTyped ==
  /\ csa \in CsaVersions /\ jobs \in [JobNames -> JobStates]
  /\ left \in [JobNames -> 0..StopTime] /\ sleep \in Nat /\ target \in JobNames

CanvasTyped ==
  /\ there \subseteq Artefacts /\ enabled \subseteq Controllers \cap there
  /\ live \subseteq Processors /\ failed \in BOOLEAN /\ tries \in 0..StartRetries

TypeInv == /\ ProcessTyped /\ JobsTyped /\ CanvasTyped
           /\ processes \in 1..MaxProcesses /\ spared \subseteq there

\* The statement that a process is at.
LEMMA AtStatement ==
  ASSUME KnownWorkshops, ProcessTyped, Running
  PROVE  pc \in 1..Len(Script) /\ Len(Script) \in Nat /\ Script[pc] \in Statements
<1> HIDE DEF Statements
<1>1. Script \in Seq(Statements)
  BY ScriptsTyped DEF ProcessTyped, Script
<1>2. Len(Script) \in Nat
  BY <1>1
<1>3. pc \in 1..Len(Script)
  BY <1>2 DEF ProcessTyped, Running
<1> QED
  BY <1>1, <1>2, <1>3

LEMMA ListedOnes ==
  ASSUME KnownWorkshops, ProcessTyped
  PROVE  todo \subseteq Artefacts \cup JobNames
<1> HIDE DEF Statements
<1>1. CASE pc \notin 1..Len(Script)
  BY <1>1 DEF ProcessTyped, Listed
<1>2. CASE pc \in 1..Len(Script)
  <2>1. Script \in Seq(Statements)
    BY ScriptsTyped DEF ProcessTyped, Script
  <2>2. Script[pc] \in Statements
    BY <1>2, <2>1
  <2>3. Script[pc].op = "delete" => Script[pc].arg \subseteq Artefacts
    BY <2>2, Says
  <2>4. Controllers \subseteq Artefacts
    BY DEF Artefacts
  <2> QED
    BY <1>2, <2>3, <2>4 DEF ProcessTyped, Listed
<1> QED
  BY <1>1, <1>2

\* How a process moves on.
LEMMA DoneTyped ==
  ASSUME KnownWorkshops, ProcessTyped, Running, Done
  PROVE  ProcessTyped'
<1>1. pc \in 1..Len(Script) /\ Len(Script) \in Nat
  BY AtStatement
<1>2. Script' = Script
  BY DEF Done, Script
<1>3. pc' \in 1..Len(Script)' + 1 /\ todo' = {}
  BY <1>1, <1>2 DEF Done
<1> QED
  BY <1>3 DEF Done, ProcessTyped

LEMMA RaiseTyped ==
  ASSUME ProcessTyped, Raise, hurt' \in BOOLEAN, faults' \in 0..MaxFaults
  PROVE  ProcessTyped'
<1>1. Script' = Script
  BY DEF Raise, Script
<1> QED
  BY <1>1 DEF Raise, ProcessTyped

LEMMA RefusedTyped == ASSUME ProcessTyped, Refused PROVE ProcessTyped'
<1>1. hurt' \in BOOLEAN /\ faults' \in 0..MaxFaults
  BY DEF Refused, ProcessTyped
<1> QED
  BY <1>1, RaiseTyped DEF Refused

LEMMA LostTyped == ASSUME ProcessTyped, Lost PROVE ProcessTyped'
<1>1. hurt' \in BOOLEAN /\ faults' \in 0..MaxFaults
  BY MaxFaultsAssumption DEF Lost, Fault, ProcessTyped
<1> QED
  BY <1>1, RaiseTyped DEF Lost

LEMMA GoOnTyped ==
  ASSUME ProcessTyped, GoOn, step' \in {"list", "call", "poll", "sleep"}, todo' \subseteq Listed
  PROVE  ProcessTyped'
<1>1. Script' = Script
  BY DEF GoOn, Script
<1>2. Listed' = Listed
  BY <1>1 DEF GoOn, Listed
<1> QED
  BY <1>1, <1>2 DEF GoOn, ProcessTyped

\* The item of a statement that is about one.
LEMMA TheOne == ASSUME NEW x, Arg = {x} PROVE The = x
BY Chosen DEF The

LEMMA CallsTyped ==
  ASSUME KnownWorkshops, TypeInv, Calls
  PROVE  ProcessTyped' /\ CanvasTyped' /\ UNCHANGED jobVars
<1> HIDE DEF Statements, Artefacts, Controllers, Processors, Connections
<1>1. Running /\ Script[pc] \in Statements /\ pc \in 1..Len(Script)
  BY AtStatement DEF TypeInv, Calls, MakeArtefact, FindArtefact, DropArtefacts, DeleteArtefacts, Now
<1>2. ProcessTyped'
  <2>1. CASE MakeArtefact \/ FindArtefact \/ DropArtefacts
    <3>1. Refused \/ Done \/ Lost
      BY <2>1 DEF MakeArtefact, FindArtefact, DropArtefacts
    <3> QED
      BY <1>1, <3>1, DoneTyped, RefusedTyped, LostTyped DEF TypeInv
  <2>2. CASE DeleteArtefacts
    <3>1. Script[pc].op = "delete" /\ Listed = Arg
      BY <1>1, <2>2 DEF DeleteArtefacts, Now, Listed, Arg
    <3>2. \/ GoOn /\ step' = "call" /\ todo' = Arg \cap there
          \/ Done
          \/ Refused
          \/ \E x \in todo : GoOn /\ step' = "call" /\ todo' = todo \ {x}
          \/ Lost
      BY <2>2 DEF DeleteArtefacts, List, LoopEnds, Visited
    <3>3. todo \subseteq Listed
      BY DEF TypeInv, ProcessTyped
    <3> QED
      BY <1>1, <3>1, <3>2, <3>3, DoneTyped, RefusedTyped, LostTyped, GoOnTyped DEF TypeInv
  <2> QED
    BY <2>1, <2>2 DEF Calls
<1>3. UNCHANGED jobVars /\ UNCHANGED canvasVars
  BY DEF Calls, MakeArtefact, FindArtefact, DropArtefacts, DeleteArtefacts
<1>4. there' \subseteq Artefacts /\ enabled \subseteq there'
  <2>1. enabled \subseteq there /\ enabled \subseteq Controllers /\ there \subseteq Artefacts
    BY DEF TypeInv, CanvasTyped
  <2>2. CASE MakeArtefact \/ FindArtefact
    <3>1. Script[pc].op \in {"make", "find"}
      BY <2>2 DEF MakeArtefact, FindArtefact, Now
    <3>2. PICK x \in Artefacts : Arg = {x}
      BY <1>1, <3>1, Says DEF Arg
    <3>3. The = x
      BY <3>2, TheOne
    <3> QED
      BY <2>1, <2>2, <3>3 DEF MakeArtefact, FindArtefact
  <2>3. CASE DropArtefacts
    <3>1. Script[pc].op \in {"drop", "try"}
      BY <2>3 DEF DropArtefacts, Now
    <3>2. Arg \cap Controllers = {}
      BY <1>1, <3>1, Says DEF Arg
    <3> QED
      BY <2>1, <2>3, <3>2 DEF DropArtefacts
  <2>4. CASE DeleteArtefacts
    <3>1. Script[pc].op = "delete" /\ Listed = Arg
      BY <1>1, <2>4 DEF DeleteArtefacts, Now, Listed, Arg
    <3>2. todo \cap Controllers = {}
      BY <1>1, <3>1, Says DEF Arg, TypeInv, ProcessTyped
    <3>3. Connections \cap Controllers = {}
      BY DEF Connections, Controllers
    <3>4. \/ there' = there
          \/ \E x \in todo : there' = there \ ({x} \cup {y \in Connections : x \in Uses(y)})
      BY <2>4 DEF DeleteArtefacts
    <3> QED
      BY <2>1, <3>2, <3>3, <3>4
  <2> QED
    BY <2>2, <2>3, <2>4 DEF Calls
<1> QED
  BY <1>2, <1>3, <1>4 DEF TypeInv, CanvasTyped, canvasVars

LEMMA IgnoredTyped ==
  ASSUME KnownWorkshops, TypeInv, RefusalIgnored, UNCHANGED processes
  PROVE  TypeInv'
<1>1. /\ UNCHANGED <<workshop, tls, phase, status, there, jobVars, canvasVars>>
      /\ pc' = pc + 1 /\ step' = "list" /\ todo' = {} /\ hurt' = TRUE
      /\ Running /\ Fault /\ spared' = spared \cup (Arg \cap there)
  BY DEF RefusalIgnored, Now
<1>2. Script' = Script
  BY <1>1 DEF Script
<1>3. pc' \in 1..Len(Script)' + 1
  BY <1>1, <1>2, AtStatement DEF TypeInv
<1>4. hurt' \in BOOLEAN
  BY <1>1, Zenon
<1>5. faults' \in 0..MaxFaults
  BY <1>1, MaxFaultsAssumption DEF Fault, TypeInv, ProcessTyped
<1>6. ProcessTyped'
  BY <1>1, <1>3, <1>4, <1>5 DEF TypeInv, ProcessTyped
<1>7. JobsTyped' /\ CanvasTyped'
  BY <1>1 DEF jobVars, canvasVars, TypeInv, JobsTyped, CanvasTyped
<1> QED
  BY <1>1, <1>6, <1>7 DEF TypeInv

\* What a request to stop a job of SSB does to the jobs' states.
LEMMA StoppedTyped ==
  ASSUME JobsTyped, NEW j \in JobNames, Stopped(j)
  PROVE  jobs' \in [JobNames -> JobStates] /\ left' \in [JobNames -> 0..StopTime]
BY DEF JobsTyped, Stopped, JobStates

LEMMA ByIdTyped ==
  ASSUME KnownWorkshops, TypeInv, Running, Listed = JobNames, StopById, UNCHANGED csa
  PROVE  ProcessTyped' /\ JobsTyped'
<1> HIDE DEF Statements
<1>1. todo \subseteq JobNames /\ Script[pc].wait \in Nat
  BY AtStatement, Says DEF TypeInv, ProcessTyped
<1>2. ProcessTyped'
  <2>1. \/ Refused \/ Lost
        \/ GoOn /\ todo' = todo /\ step' \in {"poll", "sleep"}
    BY DEF StopById
  <2> QED
    BY <1>1, <2>1, RefusedTyped, LostTyped, GoOnTyped DEF TypeInv
<1>3. JobsTyped'
  <2>1. CASE step = "call" /\ sleep' = sleep /\ \E j \in todo : UNCHANGED <<jobs, left, target>>
    BY <2>1 DEF TypeInv, JobsTyped
  <2>2. ASSUME NEW j \in todo, Stopped(j), target' = j, sleep' = sleep PROVE JobsTyped'
    BY <1>1, <2>2, StoppedTyped DEF TypeInv, JobsTyped
  <2>3. CASE UNCHANGED <<jobs, left, target>> /\ sleep' = Script[pc].wait
    BY <1>1, <2>3 DEF TypeInv, JobsTyped
  <2> QED
    BY <2>1, <2>2, <2>3 DEF StopById
<1> QED
  BY <1>2, <1>3

LEMMA JobsStepTyped ==
  ASSUME KnownWorkshops, TypeInv, Jobs
  PROVE  ProcessTyped' /\ JobsTyped' /\ UNCHANGED there
<1> HIDE DEF Statements
<1>1. Running /\ Script[pc] \in Statements /\ pc \in 1..Len(Script) /\ todo \subseteq Listed
  <2>1. Running
    BY DEF Jobs, SubmitJob, StopNamed, StopAllJobs, DeleteAllJobs, Now
  <2> QED
    BY <2>1, AtStatement DEF TypeInv, ProcessTyped
<1>2. UNCHANGED there
  BY DEF Jobs, SubmitJob, StopNamed, StopAllJobs, DeleteAllJobs
<1>3. CASE SubmitJob
  <2>1. PICK j \in JobNames : Arg = {j}
    BY <1>1, <1>3, Says DEF SubmitJob, Now, Arg
  <2>2. The = j
    BY <2>1, TheOne
  <2>3. JobsTyped'
    BY <1>3, <2>2 DEF SubmitJob, TypeInv, JobsTyped, JobStates
  <2>4. Done \/ Lost
    BY <1>3 DEF SubmitJob
  <2> QED
    BY <1>1, <1>2, <2>3, <2>4, DoneTyped, LostTyped DEF TypeInv
<1>4. CASE StopNamed
  <2>1. PICK j \in JobNames : Arg = {j}
    BY <1>1, <1>4, Says DEF StopNamed, Now, Arg
  <2>2. The = j
    BY <2>1, TheOne
  <2>3. UNCHANGED <<csa, target>> /\ Script[pc].wait \in Nat
    BY <1>1, <1>4, Says DEF StopNamed
  <2>4. \/ UNCHANGED <<jobs, left>>
        \/ Stopped(j)
    BY <1>4, <2>2 DEF StopNamed
  <2>5. sleep' = sleep \/ sleep' = Script[pc].wait
    BY <1>4 DEF StopNamed
  <2>6. jobs' \in [JobNames -> JobStates] /\ left' \in [JobNames -> 0..StopTime]
    BY <2>4, StoppedTyped DEF TypeInv, JobsTyped
  <2>7. JobsTyped'
    BY <2>3, <2>5, <2>6 DEF TypeInv, JobsTyped
  <2>8. \/ Refused \/ Lost \/ Done
        \/ GoOn /\ step' = "sleep" /\ todo' = todo
    BY <1>4 DEF StopNamed
  <2> QED
    BY <1>1, <1>2, <2>7, <2>8, DoneTyped, RefusedTyped, LostTyped, GoOnTyped DEF TypeInv
<1>5. CASE StopAllJobs
  <2>1. Listed = JobNames
    BY <1>1, <1>5 DEF StopAllJobs, Now, Listed
  <2>2. CASE StopById
    BY <1>1, <1>2, <1>5, <2>1, <2>2, ByIdTyped DEF StopAllJobs
  <2>3. CASE ~StopById
    <3>1. UNCHANGED <<csa, jobs, left, sleep, target>>
      BY <1>5, <2>3 DEF StopAllJobs
    <3>2. \/ Done
          \/ GoOn /\ step' = "call" /\ todo' = {j \in JobNames : Active(j)}
          \/ GoOn /\ step' = "call" /\ todo' = todo \ {target}
      BY <1>5, <2>3 DEF StopAllJobs, List, Visited, LoopEnds
    <3>3. ProcessTyped'
      BY <1>1, <2>1, <3>2, DoneTyped, GoOnTyped DEF TypeInv
    <3> QED
      BY <1>2, <3>1, <3>3 DEF TypeInv, JobsTyped
  <2> QED
    BY <2>2, <2>3
<1>6. CASE DeleteAllJobs
  <2>1. Listed = JobNames
    BY <1>1, <1>6 DEF DeleteAllJobs, Now, Listed
  <2>2. CASE StopById
    BY <1>1, <1>2, <1>6, <2>1, <2>2, ByIdTyped DEF DeleteAllJobs
  <2>3. CASE ~StopById
    <3>1. /\ UNCHANGED <<csa, left, sleep, target>>
          /\ jobs' = jobs \/ jobs' = [jobs EXCEPT ![target] = "none"]
      BY <1>6, <2>3 DEF DeleteAllJobs
    <3>2. \/ Done \/ Refused \/ Lost
          \/ GoOn /\ step' = "call" /\ todo' = {j \in JobNames : jobs[j] # "none"}
          \/ GoOn /\ step' = "call" /\ todo' = todo \ {target}
      BY <1>6, <2>3 DEF DeleteAllJobs, List, Visited, LoopEnds
    <3>3. ProcessTyped'
      BY <1>1, <2>1, <3>2, DoneTyped, RefusedTyped, LostTyped, GoOnTyped DEF TypeInv
    <3>4. JobsTyped'
      BY <3>1 DEF TypeInv, JobsTyped, JobStates
    <3> QED
      BY <1>2, <3>3, <3>4
  <2> QED
    BY <2>2, <2>3
<1> QED
  BY <1>3, <1>4, <1>5, <1>6 DEF Jobs

\* Controllers are enabled only where they are; a group takes those in it along.
LEMMA CanvasStepTyped ==
  ASSUME KnownWorkshops, TypeInv, Canvas
  PROVE  ProcessTyped' /\ CanvasTyped'
<1> HIDE DEF Statements, Artefacts, Controllers, Processors, Groups
<1>1. Running /\ Script[pc] \in Statements /\ pc \in 1..Len(Script) /\ todo \subseteq Listed
  <2>1. Running
    BY DEF Canvas, CreateController, StartFlow, RunProcessors, StopCanvas, DisableControllers,
           DeleteGroup, Now
  <2> QED
    BY <2>1, AtStatement DEF TypeInv, ProcessTyped
<1>2. CASE CreateController
  <2>1. PICK x \in Controllers : Arg = {x}
    BY <1>1, <1>2, Says DEF CreateController, Now, Arg
  <2>2. The = x /\ x \in Artefacts
    BY <2>1, TheOne DEF Artefacts
  <2>3. Refused \/ Done \/ Lost
    BY <1>2 DEF CreateController
  <2>4. CanvasTyped'
    BY <1>2, <2>2 DEF CreateController, TypeInv, CanvasTyped
  <2> QED
    BY <1>1, <2>3, <2>4, DoneTyped, RefusedTyped, LostTyped DEF TypeInv
<1>3. CASE StartFlow
  <2>1. CanvasTyped'
    BY <1>3, StartAssumption DEF StartFlow, TypeInv, CanvasTyped
  <2>2. CASE Done
    BY <1>1, <2>1, <2>2, DoneTyped DEF TypeInv
  <2>3. CASE ~Done
    <3>1. /\ UNCHANGED <<workshop, tls, phase, hurt, status, step, todo>>
          /\ pc' = pc \/ pc' = pc + 1
          /\ Fault /\ Script[pc].op = "start"
      BY <1>3, <2>3 DEF StartFlow, Now
    <3>2. Script' = Script /\ todo = {}
      BY <1>1, <3>1 DEF Script, Listed
    <3>3. pc' \in 1..Len(Script)' + 1
      BY <1>1, <3>1, <3>2, AtStatement DEF TypeInv
    <3>4. faults' \in 0..MaxFaults
      BY <3>1, MaxFaultsAssumption DEF Fault, TypeInv, ProcessTyped
    <3> QED
      BY <2>1, <3>1, <3>2, <3>3, <3>4 DEF TypeInv, ProcessTyped
  <2> QED
    BY <2>2, <2>3
<1>4. CASE RunProcessors
  <2>1. Arg \subseteq Processors
    BY <1>1, <1>4, Says DEF RunProcessors, Now, Arg
  <2>2. CanvasTyped'
    BY <1>4, <2>1 DEF RunProcessors, TypeInv, CanvasTyped
  <2>3. Done \/ Lost
    BY <1>4 DEF RunProcessors
  <2> QED
    BY <1>1, <2>2, <2>3, DoneTyped, LostTyped DEF TypeInv
<1>5. CASE StopCanvas
  <2>1. CanvasTyped'
    BY <1>5 DEF StopCanvas, TypeInv, CanvasTyped
  <2>2. Done \/ Lost
    BY <1>5 DEF StopCanvas
  <2> QED
    BY <1>1, <2>1, <2>2, DoneTyped, LostTyped DEF TypeInv
<1>6. CASE DisableControllers
  <2>1. Listed = Controllers
    BY <1>1, <1>6 DEF DisableControllers, Now, Listed
  <2>2. CanvasTyped'
    BY <1>6 DEF DisableControllers, TypeInv, CanvasTyped
  <2>3. \/ Done
        \/ GoOn /\ step' = "call" /\ todo' = Controllers \cap there
        \/ GoOn /\ step' = "list" /\ todo' = todo
        \/ \E c \in todo : GoOn /\ step' = "call" /\ todo' = todo \ {c}
        \/ /\ Fault /\ hurt' = TRUE /\ UNCHANGED <<workshop, tls, phase, status, pc, step>>
           /\ \E c \in todo : todo' = todo \ {c}
    BY <1>6 DEF DisableControllers, List, LoopEnds, Visited
  <2>4. CASE Fault /\ hurt' = TRUE /\ UNCHANGED <<workshop, tls, phase, status, pc, step>>
             /\ \E c \in todo : todo' = todo \ {c}
    <3>1. Script' = Script
      BY <2>4 DEF Script
    <3>2. Listed' = Listed
      BY <2>4, <3>1 DEF Listed
    <3>3. faults' \in 0..MaxFaults
      BY <2>4, MaxFaultsAssumption DEF Fault, TypeInv, ProcessTyped
    <3> QED
      BY <2>2, <2>4, <3>1, <3>2, <3>3 DEF TypeInv, ProcessTyped
  <2> QED
    BY <1>1, <2>1, <2>2, <2>3, <2>4, DoneTyped, GoOnTyped DEF TypeInv
<1>7. CASE DeleteGroup
  <2>1. PICK g \in Groups : Arg = {g}
    BY <1>1, <1>7, Says DEF DeleteGroup, Now, Arg
  <2>2. The = g /\ g \notin Controllers
    BY <2>1, TheOne DEF Groups, Controllers
  <2>3. Refused \/ Done \/ Lost
    BY <1>7 DEF DeleteGroup
  <2>4. CanvasTyped'
    BY <1>7, <2>2 DEF DeleteGroup, TypeInv, CanvasTyped
  <2> QED
    BY <1>1, <2>3, <2>4, DoneTyped, RefusedTyped, LostTyped DEF TypeInv
<1> QED
  BY <1>2, <1>3, <1>4, <1>5, <1>6, <1>7 DEF Canvas

\* Time passes, jobs die, and processes end and begin.
LEMMA TimeTyped ==
  ASSUME TypeInv, JobDies \/ Second, UNCHANGED <<canvasVars, processes, spared>>
  PROVE  TypeInv'
<1>1. UNCHANGED <<workshop, tls, phase, status, pc, step, todo, hurt, csa, target, there>>
      /\ faults' \in 0..MaxFaults
  <2>1. UNCHANGED <<processVars, csa, target, there>> /\ (Fault \/ UNCHANGED faults)
    BY DEF JobDies, Second
  <2> QED
    BY <2>1, MaxFaultsAssumption DEF processVars, Fault, TypeInv, ProcessTyped
<1>2. Script' = Script
  BY <1>1 DEF Script
<1>3. ProcessTyped' /\ CanvasTyped' /\ processes' \in 1..MaxProcesses
  BY <1>1, <1>2 DEF TypeInv, ProcessTyped, CanvasTyped, Listed, canvasVars
<1>4. JobsTyped'
  <2>1. CASE JobDies
    BY <1>1, <2>1 DEF JobDies, TypeInv, JobsTyped, JobStates
  <2>2. CASE Second
    <3>1. \A j \in JobNames : left[j] \in 0..StopTime /\ jobs[j] \in JobStates
      BY DEF TypeInv, JobsTyped
    <3>2. left' \in [JobNames -> 0..StopTime]
      BY <2>2, <3>1, StopTimeAssumption DEF Second
    <3>3. jobs' \in [JobNames -> JobStates]
      BY <2>2, <3>1 DEF Second, JobStates
    <3>4. sleep' \in Nat
      BY <2>2 DEF Second, TypeInv, JobsTyped
    <3> QED
      BY <1>1, <3>2, <3>3, <3>4 DEF TypeInv, JobsTyped
  <2> QED
    BY <2>1, <2>2
<1> QED
  BY <1>1, <1>3, <1>4 DEF TypeInv

LEMMA TurnTyped ==
  ASSUME KnownWorkshops, TypeInv, NextProcess, UNCHANGED spared
  PROVE  TypeInv'
<1> HIDE DEF Statements
<1>1. /\ phase' \in {"setup", "teardown"} /\ pc' = 1 /\ todo' = {}
      /\ UNCHANGED <<workshop, tls, faults>>
      /\ status' = "running" /\ step' = "list" /\ hurt' = FALSE
  BY DEF NextProcess
<1>2. workshop' \in WorkshopIds /\ tls' \in BOOLEAN
  BY <1>1 DEF TypeInv, ProcessTyped
<1>3. Script' \in Seq(Statements)
  BY <1>2, ScriptsTyped DEF Script
<1>4. pc' \in 1..Len(Script)' + 1
  BY <1>1, <1>3
<1>5. ProcessTyped'
  BY <1>1, <1>2, <1>4 DEF TypeInv, ProcessTyped
<1>6. JobsTyped'
  BY DEF NextProcess, jobVars, TypeInv, JobsTyped
<1>7. CanvasTyped'
  <2>1. UNCHANGED <<there, enabled, live>> /\ failed' = FALSE /\ tries' = StartRetries
    BY DEF NextProcess
  <2>2. failed' \in BOOLEAN /\ tries' \in 0..StartRetries
    <3>1. failed' \in BOOLEAN
      BY <2>1, Zenon
    <3> QED
      BY <2>1, <3>1, StartAssumption
  <2> QED
    BY <2>1, <2>2 DEF TypeInv, CanvasTyped
<1>8. processes' \in 1..MaxProcesses /\ spared' \subseteq there'
  BY ProcessesAssumption DEF NextProcess, TypeInv
<1> QED
  BY <1>5, <1>6, <1>7, <1>8 DEF TypeInv

LEMMA EndTyped ==
  ASSUME KnownWorkshops, TypeInv, ProcessEnds \/ CallIsLost, UNCHANGED processes,
         spared' \subseteq there', ProcessEnds => UNCHANGED <<there, jobVars, canvasVars>>
  PROVE  TypeInv'
<1>1. ProcessTyped'
  <2>1. CASE CallIsLost
    BY <2>1, LostTyped DEF CallIsLost, TypeInv
  <2>2. CASE ProcessEnds
    <3>1. Script' = Script
      BY <2>2 DEF ProcessEnds, Script
    <3>2. Listed' = Listed
      BY <2>2, <3>1 DEF ProcessEnds, Listed
    <3> QED
      BY <2>2, <3>1, <3>2 DEF ProcessEnds, TypeInv, ProcessTyped
  <2> QED
    BY <2>1, <2>2
<1>2. JobsTyped'
  BY DEF CallIsLost, jobVars, TypeInv, JobsTyped
<1>3. CanvasTyped'
  <2>1. CASE CallIsLost
    <3>1. UNCHANGED <<there, enabled, live>> /\ failed' = FALSE /\ tries' = StartRetries
      BY <2>1 DEF CallIsLost
    <3>2. failed' \in BOOLEAN
      BY <3>1, Zenon
    <3>3. tries' \in 0..StartRetries
      BY <3>1, StartAssumption
    <3> QED
      BY <3>1, <3>2, <3>3 DEF TypeInv, CanvasTyped
  <2>2. CASE ProcessEnds
    BY <2>2 DEF canvasVars, TypeInv, CanvasTyped
  <2> QED
    BY <2>1, <2>2
<1> QED
  BY <1>1, <1>2, <1>3 DEF TypeInv

LEMMA InitTyped == ASSUME KnownWorkshops, Init PROVE TypeInv
<1>1. Script \in Seq(Statements)
  <2> HIDE DEF Statements
  <2> QED
    BY ScriptsTyped DEF Init, Script
<1>2. pc \in 1..Len(Script) + 1
  <2> HIDE DEF Statements
  <2> QED
    BY <1>1 DEF Init
<1>3. ProcessTyped
  <2>1. hurt \in BOOLEAN
    BY Zenon DEF Init
  <2> QED
    BY <1>2, <2>1, MaxFaultsAssumption DEF Init, ProcessTyped
<1>4. JobsTyped
  <2>1. jobs \in [JobNames -> JobStates] /\ left \in [JobNames -> 0..StopTime]
    BY StopTimeAssumption DEF Init, JobStates
  <2> QED
    BY <2>1 DEF Init, JobsTyped, JobNames
<1>5. CanvasTyped
  <2>1. failed \in BOOLEAN
    BY Zenon DEF Init
  <2>2. tries \in 0..StartRetries
    BY StartAssumption DEF Init
  <2> QED
    BY <2>1, <2>2 DEF Init, CanvasTyped
<1> QED
  BY <1>3, <1>4, <1>5, ProcessesAssumption DEF Init, TypeInv

LEMMA StepTyped == ASSUME KnownWorkshops, TypeInv, [Next]_vars PROVE TypeInv'
<1>0. CASE Work
  <2>1. spared' \subseteq there' /\ UNCHANGED processes
    BY <1>0 DEF Work
  <2>2. CASE Calls
    BY <2>1, <2>2, CallsTyped DEF TypeInv, JobsTyped, jobVars
  <2>3. CASE Jobs /\ UNCHANGED canvasVars
    BY <2>1, <2>3, JobsStepTyped DEF TypeInv, CanvasTyped, canvasVars
  <2>4. CASE Canvas /\ UNCHANGED jobVars
    BY <2>1, <2>4, CanvasStepTyped DEF TypeInv, JobsTyped, jobVars
  <2>5. CASE ProcessEnds /\ UNCHANGED <<there, jobVars, canvasVars>>
    BY <2>1, <2>5, EndTyped
  <2> QED
    BY <1>0, <2>2, <2>3, <2>4, <2>5 DEF Work, Process
<1>5. CASE CallIsLost /\ UNCHANGED <<processes, spared>>
  <2>1. ~ProcessEnds
    BY <1>5 DEF CallIsLost, ProcessEnds, Lost, Raise
  <2>2. spared' \subseteq there'
    BY <1>5 DEF CallIsLost, TypeInv
  <2> QED
    BY <1>5, <2>1, <2>2, EndTyped
<1>6. CASE (JobDies \/ Second) /\ UNCHANGED <<canvasVars, processes, spared>>
  BY <1>6, TimeTyped
<1>7. CASE NextProcess /\ UNCHANGED spared
  BY <1>7, TurnTyped
<1>4. CASE RefusalIgnored /\ UNCHANGED processes
  BY <1>4, IgnoredTyped
<1>8. CASE UNCHANGED vars
  <2>1. UNCHANGED <<processVars, there, jobVars, canvasVars, faults, processes, spared>>
    BY <1>8 DEF vars
  <2>2. Script' = Script /\ Listed' = Listed
    BY <2>1 DEF processVars, Script, Listed
  <2> QED
    BY <2>1, <2>2 DEF processVars, jobVars, canvasVars, TypeInv, ProcessTyped, JobsTyped, CanvasTyped
<1> QED
  BY <1>0, <1>4, <1>5, <1>6, <1>7, <1>8 DEF Next

\* The state of the labs' services is well typed, for any number of processes
\* and of lost calls: a loop visits only what its own statement has listed, and
\* NiFi never has a controller enabled that it has not.
THEOREM ServicesTyped ==
  ASSUME KnownWorkshops
  PROVE  Spec => []TypeOK
<1>1. Init => TypeInv
  BY InitTyped
<1>2. TypeInv /\ [Next]_vars => TypeInv'
  BY StepTyped
<1>3. TypeInv => TypeOK
  BY ListedOnes DEF TypeInv, ProcessTyped, JobsTyped, CanvasTyped, TypeOK, JobStates
<1> QED
  BY <1>1, <1>2, <1>3, PTL DEF Spec

-----------------------------------------------------------------------------
(* What a set-up makes and a teardown removes.  A script is sound when each *)
(* of its statements is, after the effects of those before it: a set-up     *)
(* makes what is not there yet out of what is, a teardown deletes what      *)
(* nothing holds any more.                                                  *)

\* What a teardown that went through may leave.
Residue == {"bucket", "edge_bucket", "ssl"}

\* What the set-up of a workshop can make, its jobs included.
Makes(w) ==
  CASE w = "ssb" -> {"kafka", "iot_enriched", "schema_avro", "sr"}
    [] w = "cdc" -> CdcTables \cup SlotJobs
    [] w = "dataviz" -> {"viz_connection", "viz_dataset"}
    [] w = "fraud" ->
         {"schema", "bucket", "reg_client", "fraud_pg", "flow", "params", "ssl", "registry",
           "reader",
          "lookup", "score", "publish", "flattened", "kafka_failures", "generators_pg", "http_map",
          "generate", "handle", "response", "kafka", "kudu", "fraud_tables", "havetokm",
          "to_kudu_string", "fraud_detection_job", "viz_connection", "viz_dataset"}
    [] w = "nifi" ->
         {"gen_data", "from_gw", "temp_funnel", "gateway", "consume_mqtt", "nifi_rpg",
           "consume_conn",
          "edge_bucket", "extract_proc", "filter_proc", "extracted", "valid", "schema", "bucket",
          "reg_client", "sensor_pg", "flow", "ssl", "keytab_svc", "sr_svc", "json_reader_svc",
          "pub_kafka", "pub_failures", "json_reader_with_schema_svc", "rest_lookup_svc", "predict",
          "write_kudu", "scored"}

\* The effect of a statement: what it makes in a set-up; what it removes in a
\* teardown, and that it was executed.
Brings(c) == IF c.op \in {"make", "find", "control", "submit"} THEN c.arg ELSE {}

Undoes(c) ==
  {c.op} \cup (IF c.op \in {"drop", "try", "delete"} THEN c.arg
               ELSE IF c.op = "ungroup" THEN c.arg \cup UNION {Inside(g) : g \in c.arg} ELSE {})

Effect(ph, c) == IF ph = "setup" THEN Brings(c) ELSE Undoes(c)

\* The effects of the statements before the n-th, and of all of them.
Before(ph, s, n) == UNION {Effect(ph, s[i]) : i \in 1..(n - 1)}

Total(ph, s) == Before(ph, s, Len(s) + 1)

\* The last lab of edge replaces one connection by others.
Still(K) == K \ {"consume_conn"}

NeedsOn(x, b) == Uses(x) \ (IF b THEN {} ELSE {"ssl", "keytab_svc"})

\* A statement of a set-up that has made K goes through.
GoesUp(c, K, b) ==
  /\ c.op \in {"make", "find", "control", "run", "drop", "delete", "submit", "stop", "start"}
  /\ c.op \in {"make", "find", "control"} => \A x \in c.arg : NeedsOn(x, b) \subseteq Still(K)
  /\ c.op = "make" => c.arg \cap (K \cup Residue) = {}
  /\ c.op = "control" =>
       \A x \in c.arg : x \notin K /\ (x \in Residue => \A y \in K : x \notin Uses(y))
  /\ c.op = "run" => c.arg \subseteq Still(K)
  /\ c.op = "drop" => c.arg \cap K = {}
  /\ c.op = "delete" => c.arg = {"consume_conn"}

\* Nothing holds S any more where nothing of K is left; providers go before kafka.
Released(S, K) ==
  /\ \A x \in S, y \in Artefacts : <<y, x>> \in Holds => y \in K \/ (x = "kafka" /\ y \in S)
  /\ S \cap Connections # {} => "halt" \in K

\* A statement of a teardown goes through where nothing of K is left.
GoesDown(c, K) ==
  /\ c.op \in {"delete", "drop", "try", "ungroup", "halt", "disable", "stop_all", "delete_jobs"}
  /\ c.op = "delete" => Released(c.arg, K)
  /\ c.op \in {"drop", "try", "delete"} => c.arg \cap Groups = {}
  /\ c.op = "try" => c.arg = {"schema_avro"}
  /\ c.op = "ungroup" =>
       /\ "disable" \in K
       /\ \A g \in c.arg, h \in Groups : g \in Uses(h) => Inside(h) \subseteq K

Sound(ph, c, K, b) == IF ph = "setup" THEN GoesUp(c, K, b) ELSE GoesDown(c, K)

Works(ph, s, K, b) == \A n \in 1..Len(s) : Sound(ph, s[n], K \cup Before(ph, s, n), b)

\* c goes through after K and adds to it what makes L; so does a script.
Step(ph, c, K, L, b) == c \in Statements /\ Sound(ph, c, K, b) /\ L = K \cup Effect(ph, c)

Leads(ph, s, K, L, b) == s \in Seq(Statements) /\ Works(ph, s, K, b) /\ L = K \cup Total(ph, s)

\* What no process of the workshop makes.
Absent(w) == Artefacts \ (Makes(w) \cup Residue)

\* A set-up goes through from nothing; the teardown goes through where only its
\* workshop has been at work, and leaves no more than the residue.
SetupServes(w, b) == \E L : Leads("setup", SetupOf(w, b), {}, L, b) /\ L \subseteq Makes(w)

Clears(w, G) ==
  /\ Makes(w) \cap Artefacts \subseteq G \cup Residue
  /\ "halt" \in G \/ Makes(w) \cap Processors = {}
  /\ "stop_all" \in G \/ Makes(w) \cap JobNames = {}
  /\ w = "fraud" => "delete_jobs" \in G

TeardownServes(w, b) == \E G : Leads("teardown", TeardownOf(w), Absent(w), G, b) /\ Clears(w, G)
LEMMA BeforeFirst == ASSUME NEW ph, NEW s PROVE Before(ph, s, 1) = {}
BY DEF Before

LEMMA BeforeNext ==
  ASSUME NEW ph, NEW s, NEW n \in Nat \ {0}
  PROVE  Before(ph, s, n + 1) = Before(ph, s, n) \cup Effect(ph, s[n])
<1>1. 1..(n + 1 - 1) = 1..(n - 1) \cup {n}
  OBVIOUS
<1> QED
  BY <1>1 DEF Before

LEMMA TotalNext ==
  ASSUME NEW ph, NEW s, NEW n \in Nat \ {0}, Len(s) = n
  PROVE  Total(ph, s) = Before(ph, s, n) \cup Effect(ph, s[n])
BY BeforeNext DEF Total

\* One statement, and one more.
LEMMA One ==
  ASSUME NEW ph, NEW K, NEW b, NEW c, Sound(ph, c, K, b)
  PROVE  Works(ph, <<c>>, K, b) /\ Total(ph, <<c>>) = Effect(ph, c)
<1> DEFINE s == <<c>>
<1>1. Len(s) = 1 /\ s[1] = c
  OBVIOUS
<1> HIDE DEF s
<1>2. Before(ph, s, 1) = {} /\ Before(ph, s, 2) = Effect(ph, c)
  <2>1. Before(ph, s, 1) = {}
    BY BeforeFirst
  <2>2. 1..(2 - 1) = {1}
    OBVIOUS
  <2> QED
    BY <1>1, <2>1, <2>2 DEF Before
<1>3. K \cup Before(ph, s, 1) = K
  BY <1>2
<1>4. \A n \in 1..1 : n = 1
  OBVIOUS
<1>5. Works(ph, s, K, b)
  BY <1>1, <1>3, <1>4 DEF Works
<1> QED
  BY <1>1, <1>2, <1>5 DEF Total, s

LEMMA LeadsOne ==
  ASSUME NEW ph, NEW b, NEW K, NEW L, NEW c, Step(ph, c, K, L, b)
  PROVE  Leads(ph, <<c>>, K, L, b)
<1>1. c \in Statements /\ Sound(ph, c, K, b) /\ L = K \cup Effect(ph, c)
  BY DEF Step
<1> HIDE DEF Statements
<1>2. <<c>> \in Seq(Statements)
  BY <1>1
<1> QED
  BY <1>1, <1>2, One DEF Leads

LEMMA LeadsOn ==
  ASSUME NEW ph, NEW b, NEW K, NEW L, NEW M, NEW s, NEW t, NEW c,
         Len(s) \in Nat, Len(t) = Len(s) + 1, \A i \in 1..Len(s) : t[i] = s[i], t[Len(t)] = c,
         c \in Statements => t \in Seq(Statements),
         Leads(ph, s, K, L, b), Step(ph, c, L, M, b)
  PROVE  Leads(ph, t, K, M, b)
<1> DEFINE n == Len(t)
<1>1. n \in Nat \ {0} /\ Len(s) = n - 1 /\ Len(t) = n /\ t[n] = c
  OBVIOUS
<1> HIDE DEF n
<1>2. \A m \in 1..n : Before(ph, t, m) = Before(ph, s, m)
  <2>1. SUFFICES ASSUME NEW m \in 1..n
                 PROVE  {Effect(ph, t[i]) : i \in 1..(m - 1)} = {Effect(ph,
                          s[i]) : i \in 1..(m - 1)}
    BY DEF Before
  <2>2. \A i \in 1..(m - 1) : t[i] = s[i]
    BY <1>1, <2>1
  <2> QED
    BY <2>2
<1>3. Works(ph, s, K, b) /\ L = K \cup Total(ph, s)
  BY DEF Leads
<1>4. Sound(ph, c, L, b) /\ M = L \cup Effect(ph, c)
  BY DEF Step
<1>5. Before(ph, t, n) = Total(ph, s)
  BY <1>1, <1>2 DEF Total
<1>6. \A m \in 1..(n - 1) : Sound(ph, t[m], K \cup Before(ph, t, m), b)
  <2>1. SUFFICES ASSUME NEW m \in 1..(n - 1) PROVE Sound(ph, t[m], K \cup Before(ph, t, m), b)
    OBVIOUS
  <2>2. Sound(ph, s[m], K \cup Before(ph, s, m), b)
    BY <1>1, <1>3, <2>1 DEF Works
  <2>3. m \in 1..n /\ t[m] = s[m]
    BY <1>1, <2>1
  <2>4. Before(ph, t, m) = Before(ph, s, m)
    BY <1>2, <2>3
  <2> QED
    BY <2>2, <2>3, <2>4
<1>7. Works(ph, t, K, b)
  <2>1. \A m \in 1..n : m \in 1..(n - 1) \/ m = n
    BY <1>1
  <2>2. K \cup Before(ph, t, n) = L
    BY <1>3, <1>5
  <2>3. Sound(ph, t[n], K \cup Before(ph, t, n), b)
    BY <1>1, <1>4, <2>2
  <2> QED
    BY <1>1, <1>6, <2>1, <2>3 DEF Works
<1>8. Total(ph, t) = Before(ph, t, n) \cup Effect(ph, t[n])
  BY <1>1, TotalNext
<1> QED
  BY <1>1, <1>3, <1>4, <1>5, <1>7, <1>8 DEF Leads, Step

\* One script after another.
LEMMA LeadsTurn ==
  ASSUME NEW ph, NEW b, NEW K, NEW L, NEW M, NEW s, NEW t,
         Leads(ph, s, K, L, b), Leads(ph, t, L, M, b)
  PROVE  Leads(ph, s \o t, K, M, b)
<1> DEFINE u == s \o t
<1> HIDE DEF Statements
<1>0. /\ s \in Seq(Statements) /\ t \in Seq(Statements)
      /\ Works(ph, s, K, b) /\ L = K \cup Total(ph, s)
      /\ Works(ph, t, K \cup Total(ph, s), b) /\ M = L \cup Total(ph, t)
  BY DEF Leads
<1>1. /\ u \in Seq(Statements) /\ Len(u) = Len(s) + Len(t)
      /\ \A i \in 1..(Len(s) + Len(t)) : u[i] = IF i <= Len(s) THEN s[i] ELSE t[i - Len(s)]
  BY <1>0, Joined
<1>2. Len(s) \in Nat /\ Len(t) \in Nat
  BY <1>0
<1> HIDE DEF u
<1>3. \A m \in 1..(Len(s) + 1) : Before(ph, u, m) = Before(ph, s, m)
  <2>1. SUFFICES ASSUME NEW m \in 1..(Len(s) + 1)
                 PROVE  {Effect(ph, u[i]) : i \in 1..(m - 1)} = {Effect(ph,
                          s[i]) : i \in 1..(m - 1)}
    BY DEF Before
  <2>2. \A i \in 1..(m - 1) : u[i] = s[i]
    BY <1>1, <1>2, <2>1
  <2> QED
    BY <2>2
<1>4. \A m \in 1..(Len(t) + 1) : Before(ph, u, Len(s) + m) = Total(ph, s) \cup Before(ph, t, m)
  <2>1. TAKE m \in 1..(Len(t) + 1)
  <2>2. ASSUME NEW i \in 1..(Len(s) + m - 1)
        PROVE  \/ i \in 1..(Len(s) + 1 - 1) /\ u[i] = s[i]
               \/ i - Len(s) \in 1..(m - 1) /\ u[i] = t[i - Len(s)]
    BY <1>1, <1>2, <2>1, <2>2
  <2>3. \A i \in 1..(Len(s) + 1 - 1) : i \in 1..(Len(s) + m - 1) /\ u[i] = s[i]
    BY <1>1, <1>2, <2>1
  <2>4. \A j \in 1..(m - 1) : Len(s) + j \in 1..(Len(s) + m - 1) /\ u[Len(s) + j] = t[j]
    <3>1. SUFFICES ASSUME NEW j \in 1..(m - 1)
                   PROVE  Len(s) + j \in 1..(Len(s) + m - 1) /\ u[Len(s) + j] = t[j]
      OBVIOUS
    <3>2. /\ Len(s) + j \in 1..(Len(s) + Len(t)) /\ Len(s) + j \in 1..(Len(s) + m - 1)
          /\ ~(Len(s) + j <= Len(s)) /\ (Len(s) + j) - Len(s) = j
      BY <1>2, <2>1, <3>1
    <3>3. u[Len(s) + j] = t[(Len(s) + j) - Len(s)]
      BY <1>1, <3>2
    <3> QED
      BY <3>2, <3>3
  <2>5. ASSUME NEW e \in Before(ph, u, Len(s) + m) PROVE e \in Total(ph, s) \cup Before(ph, t, m)
    BY <2>2, <2>5 DEF Before, Total
  <2>6. ASSUME NEW e \in Total(ph, s) PROVE e \in Before(ph, u, Len(s) + m)
    <3>1. PICK j \in 1..(Len(s) + 1 - 1) : e \in Effect(ph, s[j])
      BY <2>6 DEF Before, Total
    <3> QED
      BY <2>3, <3>1 DEF Before
  <2>7. ASSUME NEW e \in Before(ph, t, m) PROVE e \in Before(ph, u, Len(s) + m)
    <3>1. PICK j \in 1..(m - 1) : e \in Effect(ph, t[j])
      BY <2>7 DEF Before
    <3> QED
      BY <2>4, <3>1 DEF Before
  <2> QED
    BY <2>5, <2>6, <2>7
<1>5. Works(ph, u, K, b)
  <2>1. SUFFICES ASSUME NEW n \in 1..Len(u) PROVE Sound(ph, u[n], K \cup Before(ph, u, n), b)
    BY DEF Works
  <2>2. CASE n <= Len(s)
    <3>1. n \in 1..Len(s) /\ u[n] = s[n] /\ Before(ph, u, n) = Before(ph, s, n)
      BY <1>1, <1>2, <1>3, <2>1, <2>2
    <3> QED
      BY <1>0, <3>1 DEF Works
  <2>3. CASE n > Len(s)
    <3>1. n - Len(s) \in 1..Len(t) /\ u[n] = t[n - Len(s)]
      BY <1>1, <1>2, <2>1, <2>3
    <3>2. Before(ph, u, n) = Total(ph, s) \cup Before(ph, t, n - Len(s))
      <4>1. n - Len(s) \in 1..(Len(t) + 1) /\ Len(s) + (n - Len(s)) = n
        BY <1>2, <2>1, <3>1
      <4> QED
        BY <1>4, <4>1
    <3>3. Sound(ph, t[n - Len(s)], (K \cup Total(ph, s)) \cup Before(ph, t, n - Len(s)), b)
      BY <1>0, <3>1 DEF Works
    <3>4. (K \cup Total(ph, s)) \cup Before(ph, t, n - Len(s)) = K \cup Before(ph, u, n)
      BY <3>2
    <3> QED
      BY <3>1, <3>3, <3>4
  <2> QED
    BY <1>1, <1>2, <2>1, <2>2, <2>3
<1>6. Total(ph, u) = Total(ph, s) \cup Total(ph, t)
  <2>1. Before(ph, u, Len(s) + (Len(t) + 1)) = Total(ph, s) \cup Before(ph, t, Len(t) + 1)
    BY <1>2, <1>4
  <2>2. Len(s) + (Len(t) + 1) = Len(u) + 1
    BY <1>1, <1>2
  <2> QED
    BY <2>1, <2>2 DEF Total
<1> QED
  BY <1>0, <1>1, <1>5, <1>6 DEF u, Leads
LEMMA LeadsTwo ==
  ASSUME NEW ph, NEW b, NEW K0, NEW c1, NEW c2, NEW K1, NEW K2,
         Step(ph, c1, K0, K1, b),
         Step(ph, c2, K1, K2, b)
  PROVE  Leads(ph, <<c1, c2>>, K0, K2, b)
<1> DEFINE s == <<c1>>
           t == <<c1, c2>>
<1> HIDE DEF Statements
<1>1. Leads(ph, s, K0, K1, b)
  BY LeadsOne
<1>2. Len(s) \in Nat /\ Len(t) = Len(s) + 1 /\ t[Len(t)] = c2 /\ \A i \in 1..Len(s) : t[i] = s[i]
  OBVIOUS
<1>3. t \in Seq(Statements)
  BY DEF Step
<1> HIDE DEF s, t
<1>4. Leads(ph, t, K0, K2, b)
  BY <1>1, <1>2, <1>3, LeadsOn
<1> QED
  BY <1>4 DEF t

LEMMA LeadsThree ==
  ASSUME NEW ph, NEW b, NEW K0, NEW c1, NEW c2, NEW c3, NEW K1, NEW K2, NEW K3,
         Step(ph, c1, K0, K1, b),
         Step(ph, c2, K1, K2, b),
         Step(ph, c3, K2, K3, b)
  PROVE  Leads(ph, <<c1, c2, c3>>, K0, K3, b)
<1> DEFINE s == <<c1, c2>>
           t == <<c1, c2, c3>>
<1> HIDE DEF Statements
<1>1. Leads(ph, s, K0, K2, b)
  BY LeadsTwo
<1>2. Len(s) \in Nat /\ Len(t) = Len(s) + 1 /\ t[Len(t)] = c3 /\ \A i \in 1..Len(s) : t[i] = s[i]
  OBVIOUS
<1>3. t \in Seq(Statements)
  BY DEF Step
<1> HIDE DEF s, t
<1>4. Leads(ph, t, K0, K3, b)
  BY <1>1, <1>2, <1>3, LeadsOn
<1> QED
  BY <1>4 DEF t

LEMMA LeadsFour ==
  ASSUME NEW ph, NEW b, NEW K0, NEW c1, NEW c2, NEW c3, NEW c4, NEW K1, NEW K2, NEW K3, NEW K4,
         Step(ph, c1, K0, K1, b),
         Step(ph, c2, K1, K2, b),
         Step(ph, c3, K2, K3, b),
         Step(ph, c4, K3, K4, b)
  PROVE  Leads(ph, <<c1, c2, c3, c4>>, K0, K4, b)
<1> DEFINE s == <<c1, c2, c3>>
           t == <<c1, c2, c3, c4>>
<1> HIDE DEF Statements
<1>1. Leads(ph, s, K0, K3, b)
  BY LeadsThree
<1>2. Len(s) \in Nat /\ Len(t) = Len(s) + 1 /\ t[Len(t)] = c4 /\ \A i \in 1..Len(s) : t[i] = s[i]
  OBVIOUS
<1>3. t \in Seq(Statements)
  BY DEF Step
<1> HIDE DEF s, t
<1>4. Leads(ph, t, K0, K4, b)
  BY <1>1, <1>2, <1>3, LeadsOn
<1> QED
  BY <1>4 DEF t

LEMMA LeadsFive ==
  ASSUME NEW ph, NEW b, NEW K0, NEW c1, NEW c2, NEW c3, NEW c4, NEW c5, NEW K1, NEW K2, NEW K3,
           NEW K4, NEW K5,
         Step(ph, c1, K0, K1, b),
         Step(ph, c2, K1, K2, b),
         Step(ph, c3, K2, K3, b),
         Step(ph, c4, K3, K4, b),
         Step(ph, c5, K4, K5, b)
  PROVE  Leads(ph, <<c1, c2, c3, c4, c5>>, K0, K5, b)
<1> DEFINE s == <<c1, c2, c3, c4>>
           t == <<c1, c2, c3, c4, c5>>
<1> HIDE DEF Statements
<1>1. Leads(ph, s, K0, K4, b)
  BY LeadsFour
<1>2. Len(s) \in Nat /\ Len(t) = Len(s) + 1 /\ t[Len(t)] = c5 /\ \A i \in 1..Len(s) : t[i] = s[i]
  OBVIOUS
<1>3. t \in Seq(Statements)
  BY DEF Step
<1> HIDE DEF s, t
<1>4. Leads(ph, t, K0, K5, b)
  BY <1>1, <1>2, <1>3, LeadsOn
<1> QED
  BY <1>4 DEF t

LEMMA LeadsSix ==
  ASSUME NEW ph, NEW b, NEW K0, NEW c1, NEW c2, NEW c3, NEW c4, NEW c5, NEW c6, NEW K1, NEW K2,
           NEW K3, NEW K4, NEW K5, NEW K6,
         Step(ph, c1, K0, K1, b),
         Step(ph, c2, K1, K2, b),
         Step(ph, c3, K2, K3, b),
         Step(ph, c4, K3, K4, b),
         Step(ph, c5, K4, K5, b),
         Step(ph, c6, K5, K6, b)
  PROVE  Leads(ph, <<c1, c2, c3, c4, c5, c6>>, K0, K6, b)
<1> DEFINE s == <<c1, c2, c3, c4, c5>>
           t == <<c1, c2, c3, c4, c5, c6>>
<1> HIDE DEF Statements
<1>1. Leads(ph, s, K0, K5, b)
  BY LeadsFive
<1>2. Len(s) \in Nat /\ Len(t) = Len(s) + 1 /\ t[Len(t)] = c6 /\ \A i \in 1..Len(s) : t[i] = s[i]
  OBVIOUS
<1>3. t \in Seq(Statements)
  BY DEF Step
<1> HIDE DEF s, t
<1>4. Leads(ph, t, K0, K6, b)
  BY <1>1, <1>2, <1>3, LeadsOn
<1> QED
  BY <1>4 DEF t

LEMMA LeadsSeven ==
  ASSUME NEW ph, NEW b, NEW K0, NEW c1, NEW c2, NEW c3, NEW c4, NEW c5, NEW c6, NEW c7, NEW K1,
           NEW K2, NEW K3, NEW K4, NEW K5, NEW K6, NEW K7,
         Step(ph, c1, K0, K1, b),
         Step(ph, c2, K1, K2, b),
         Step(ph, c3, K2, K3, b),
         Step(ph, c4, K3, K4, b),
         Step(ph, c5, K4, K5, b),
         Step(ph, c6, K5, K6, b),
         Step(ph, c7, K6, K7, b)
  PROVE  Leads(ph, <<c1, c2, c3, c4, c5, c6, c7>>, K0, K7, b)
<1> DEFINE s == <<c1, c2, c3, c4, c5, c6>>
           t == <<c1, c2, c3, c4, c5, c6, c7>>
<1> HIDE DEF Statements
<1>1. Leads(ph, s, K0, K6, b)
  BY LeadsSix
<1>2. Len(s) \in Nat /\ Len(t) = Len(s) + 1 /\ t[Len(t)] = c7 /\ \A i \in 1..Len(s) : t[i] = s[i]
  OBVIOUS
<1>3. t \in Seq(Statements)
  BY DEF Step
<1> HIDE DEF s, t
<1>4. Leads(ph, t, K0, K7, b)
  BY <1>1, <1>2, <1>3, LeadsOn
<1> QED
  BY <1>4 DEF t

LEMMA LeadsEight ==
  ASSUME NEW ph, NEW b, NEW K0, NEW c1, NEW c2, NEW c3, NEW c4, NEW c5, NEW c6, NEW c7, NEW c8,
           NEW K1, NEW K2, NEW K3, NEW K4, NEW K5, NEW K6, NEW K7, NEW K8,
         Step(ph, c1, K0, K1, b),
         Step(ph, c2, K1, K2, b),
         Step(ph, c3, K2, K3, b),
         Step(ph, c4, K3, K4, b),
         Step(ph, c5, K4, K5, b),
         Step(ph, c6, K5, K6, b),
         Step(ph, c7, K6, K7, b),
         Step(ph, c8, K7, K8, b)
  PROVE  Leads(ph, <<c1, c2, c3, c4, c5, c6, c7, c8>>, K0, K8, b)
<1> DEFINE s == <<c1, c2, c3, c4, c5, c6, c7>>
           t == <<c1, c2, c3, c4, c5, c6, c7, c8>>
<1> HIDE DEF Statements
<1>1. Leads(ph, s, K0, K7, b)
  BY LeadsSeven
<1>2. Len(s) \in Nat /\ Len(t) = Len(s) + 1 /\ t[Len(t)] = c8 /\ \A i \in 1..Len(s) : t[i] = s[i]
  OBVIOUS
<1>3. t \in Seq(Statements)
  BY DEF Step
<1> HIDE DEF s, t
<1>4. Leads(ph, t, K0, K8, b)
  BY <1>1, <1>2, <1>3, LeadsOn
<1> QED
  BY <1>4 DEF t

LEMMA LeadsNine ==
  ASSUME NEW ph, NEW b, NEW K0, NEW c1, NEW c2, NEW c3, NEW c4, NEW c5, NEW c6, NEW c7, NEW c8,
           NEW c9, NEW K1, NEW K2, NEW K3, NEW K4, NEW K5, NEW K6, NEW K7, NEW K8, NEW K9,
         Step(ph, c1, K0, K1, b),
         Step(ph, c2, K1, K2, b),
         Step(ph, c3, K2, K3, b),
         Step(ph, c4, K3, K4, b),
         Step(ph, c5, K4, K5, b),
         Step(ph, c6, K5, K6, b),
         Step(ph, c7, K6, K7, b),
         Step(ph, c8, K7, K8, b),
         Step(ph, c9, K8, K9, b)
  PROVE  Leads(ph, <<c1, c2, c3, c4, c5, c6, c7, c8, c9>>, K0, K9, b)
<1> DEFINE s == <<c1, c2, c3, c4, c5, c6, c7, c8>>
           t == <<c1, c2, c3, c4, c5, c6, c7, c8, c9>>
<1> HIDE DEF Statements
<1>1. Leads(ph, s, K0, K8, b)
  BY LeadsEight
<1>2. Len(s) \in Nat /\ Len(t) = Len(s) + 1 /\ t[Len(t)] = c9 /\ \A i \in 1..Len(s) : t[i] = s[i]
  OBVIOUS
<1>3. t \in Seq(Statements)
  BY DEF Step
<1> HIDE DEF s, t
<1>4. Leads(ph, t, K0, K9, b)
  BY <1>1, <1>2, <1>3, LeadsOn
<1> QED
  BY <1>4 DEF t

\* Statements that go through.
LEMMA StepMake ==
  ASSUME NEW b, NEW K, NEW x \in Artefacts,
         NeedsOn(x, b) \subseteq Still(K), x \notin K, x \notin Residue
  PROVE  Step("setup", Make(x), K, K \cup {x}, b)
<1>1. Make(x) \in Statements
  BY Typed
<1>2. Make(x).op = "make" /\ Make(x).arg = {x}
  BY DEF Make, Statement
<1> HIDE DEF Statements, Make
<1> QED
  BY <1>1, <1>2 DEF Step, Sound, GoesUp, Effect, Brings

LEMMA StepFind ==
  ASSUME NEW b, NEW K, NEW x \in Artefacts, NeedsOn(x, b) \subseteq Still(K)
  PROVE  Step("setup", Find(x), K, K \cup {x}, b)
<1>1. Find(x) \in Statements
  BY QuietCalls DEF Statements
<1>2. Find(x).op = "find" /\ Find(x).arg = {x}
  BY DEF Find, Statement
<1> HIDE DEF Statements, Find
<1> QED
  BY <1>1, <1>2 DEF Step, Sound, GoesUp, Effect, Brings

LEMMA StepControl ==
  ASSUME NEW b, NEW K, NEW x \in Controllers,
         NeedsOn(x, b) \subseteq Still(K), x \notin K, x \in Residue
           => \A y \in K : x \notin Uses(y)
  PROVE  Step("setup", Control(x), K, K \cup {x}, b)
<1>1. Control(x) \in Statements
  BY QuietCalls DEF Statements
<1>2. Control(x).op = "control" /\ Control(x).arg = {x}
  BY DEF Control, Statement
<1> HIDE DEF Statements, Control
<1> QED
  BY <1>1, <1>2 DEF Step, Sound, GoesUp, Effect, Brings

LEMMA StepRun ==
  ASSUME NEW b, NEW K, NEW S, S \subseteq Processors, S \subseteq Still(K)
  PROVE  Step("setup", Run(S), K, K, b)
<1>1. Run(S) \in Statements
  BY QuietCalls DEF Statements
<1>2. Run(S).op = "run" /\ Run(S).arg = S
  BY DEF Run, Statement
<1> HIDE DEF Statements, Run
<1> QED
  BY <1>1, <1>2 DEF Step, Sound, GoesUp, Effect, Brings

LEMMA StepStart == ASSUME NEW b, NEW K PROVE Step("setup", Plain("start"), K, K, b)
<1>1. Plain("start") \in Statements
  BY QuietCalls DEF Statements
<1>2. Plain("start").op = "start"
  BY DEF Plain, Statement
<1> HIDE DEF Statements, Plain
<1> QED
  BY <1>1, <1>2 DEF Step, Sound, GoesUp, Effect, Brings

LEMMA StepClear ==
  ASSUME NEW b, NEW K, NEW S, S \subseteq Plains, S \cap K = {}
  PROVE  Step("setup", Drop(S), K, K, b)
<1>1. Drop(S) \in Statements
  BY Typed
<1>2. Drop(S).op = "drop" /\ Drop(S).arg = S
  BY DEF Drop, Statement
<1> HIDE DEF Statements, Drop
<1> QED
  BY <1>1, <1>2 DEF Step, Sound, GoesUp, Effect, Brings

LEMMA StepReplace ==
  ASSUME NEW b, NEW K PROVE Step("setup", DeleteEach({"consume_conn"}), K, K, b)
<1>0. {"consume_conn"} \in SUBSET Plains
  BY DEF Plains, Artefacts, Controllers, EdgeConnections
<1>1. DeleteEach({"consume_conn"}) \in Statements
  BY <1>0, QuietCalls DEF Statements
<1>2. DeleteEach({"consume_conn"}).op = "delete" /\ DeleteEach({"consume_conn"}).arg = {"consume_conn"}
  BY DEF DeleteEach, Statement
<1> HIDE DEF Statements, DeleteEach
<1> QED
  BY <1>1, <1>2 DEF Step, Sound, GoesUp, Effect, Brings

LEMMA StepSubmit ==
  ASSUME NEW b, NEW K, NEW j \in JobNames PROVE Step("setup", Submit(j), K, K \cup {j}, b)
<1>1. Submit(j) \in Statements
  BY Typed
<1>2. Submit(j).op = "submit" /\ Submit(j).arg = {j}
  BY DEF Submit, Statement
<1> HIDE DEF Statements, Submit
<1> QED
  BY <1>1, <1>2 DEF Step, Sound, GoesUp, Effect, Brings

LEMMA StepStop ==
  ASSUME NEW b, NEW K, NEW j \in JobNames, NEW n \in Nat PROVE Step("setup", Stop(j, n), K, K, b)
<1>1. Stop(j, n) \in Statements
  BY Typed
<1>2. Stop(j, n).op = "stop" /\ Stop(j, n).arg = {j}
  BY DEF Stop, Statement
<1> HIDE DEF Statements, Stop
<1> QED
  BY <1>1, <1>2 DEF Step, Sound, GoesUp, Effect, Brings

LEMMA StepDelete ==
  ASSUME NEW b, NEW K, NEW S, S \subseteq Plains, S \cap Groups = {}, Released(S, K)
  PROVE  Step("teardown", DeleteEach(S), K, K \cup {"delete"} \cup S, b)
<1>1. DeleteEach(S) \in Statements
  BY QuietCalls DEF Statements
<1>2. DeleteEach(S).op = "delete" /\ DeleteEach(S).arg = S
  BY DEF DeleteEach, Statement
<1> HIDE DEF Statements, DeleteEach
<1> QED
  BY <1>1, <1>2 DEF Step, Sound, GoesDown, Effect, Undoes

LEMMA StepDrop ==
  ASSUME NEW b, NEW K, NEW S, S \subseteq Plains, S \cap Groups = {}
  PROVE  Step("teardown", Drop(S), K, K \cup {"drop"} \cup S, b)
<1>1. Drop(S) \in Statements
  BY Typed
<1>2. Drop(S).op = "drop" /\ Drop(S).arg = S
  BY DEF Drop, Statement
<1> HIDE DEF Statements, Drop
<1> QED
  BY <1>1, <1>2 DEF Step, Sound, GoesDown, Effect, Undoes

LEMMA StepTry ==
  ASSUME NEW b, NEW K
  PROVE  Step("teardown", Try({"schema_avro"}), K, K \cup {"try"} \cup {"schema_avro"}, b)
<1>1. {"schema_avro"} \in SUBSET Plains /\ {"schema_avro"} \cap Groups = {}
  BY DEF Plains, Artefacts, Controllers, Groups
<1>2. Try({"schema_avro"}) \in Statements
  BY <1>1, QuietCalls DEF Statements
<1>3. Try({"schema_avro"}).op = "try" /\ Try({"schema_avro"}).arg = {"schema_avro"}
  BY DEF Try, Statement
<1> HIDE DEF Statements, Try
<1> QED
  BY <1>1, <1>2, <1>3 DEF Step, Sound, GoesDown, Effect, Undoes

LEMMA StepUngroup ==
  ASSUME NEW b, NEW K, NEW g \in Groups,
         "disable" \in K, \A h \in Groups : g \in Uses(h) => Inside(h) \subseteq K
  PROVE  Step("teardown", Statement("ungroup", {g}, 0), K, K \cup {"ungroup", g} \cup Inside(g), b)
<1> DEFINE c == Statement("ungroup", {g}, 0)
<1>1. c \in Statements
  BY QuietCalls DEF Statements
<1>2. c.op = "ungroup" /\ c.arg = {g}
  BY DEF Statement
<1> HIDE DEF Statements, c, Groups
<1>3. Effect("teardown", c) = {"ungroup", g} \cup Inside(g)
  BY <1>2 DEF Effect, Undoes
<1>4. Sound("teardown", c, K, b)
  BY <1>2 DEF Sound, GoesDown
<1>5. Step("teardown", c, K, K \cup {"ungroup", g} \cup Inside(g), b)
  BY <1>1, <1>3, <1>4 DEF Step
<1> QED
  BY <1>5 DEF c

LEMMA StepPlain ==
  ASSUME NEW b, NEW K, NEW op \in {"halt", "disable", "delete_jobs"}
  PROVE  Step("teardown", Plain(op), K, K \cup {op}, b)
<1>1. Plain(op) \in Statements
  BY QuietCalls DEF Statements
<1>2. Plain(op).op = op
  BY DEF Plain, Statement
<1> HIDE DEF Statements, Plain
<1> QED
  BY <1>1, <1>2 DEF Step, Sound, GoesDown, Effect, Undoes

LEMMA StepStopAll ==
  ASSUME NEW b, NEW K, NEW n \in Nat
  PROVE  Step("teardown", Statement("stop_all", {}, n), K, K \cup {"stop_all"}, b)
<1> DEFINE c == Statement("stop_all", {}, n)
<1>1. c \in Statements
  BY QuietCalls DEF Statements
<1>2. c.op = "stop_all"
  BY DEF Statement
<1> HIDE DEF Statements, c
<1>3. Step("teardown", c, K, K \cup {"stop_all"}, b)
  BY <1>1, <1>2 DEF Step, Sound, GoesDown, Effect, Undoes
<1> QED
  BY <1>3 DEF c
LEMMA LabSsbKafkaLab ==
  ASSUME NEW b, NEW K,
         {"kafka"} \cap K = {}
  PROVE  Leads("setup", SsbKafkaLab, K, K \cup {"kafka"}, b)
<1> DEFINE K0 == K
           K1 == K0 \cup {"kafka"}
<1>a. {"kafka"} \subseteq Artefacts
  BY DEF Artefacts, Providers, Tables, Udfs, Groups, Controllers, Processors, Connections,
         EdgeProcessors, EdgeConnections
<1>1. Step("setup", Make("kafka"), K0, K1, b)
  BY <1>a, StepMake DEF NeedsOn, Uses, Still, Residue
<1>2. K1 = K \cup {"kafka"}
  OBVIOUS
<1> HIDE DEF K0, K1
<1>3. Leads("setup", <<Make("kafka")>>, K0, K1, b)
  BY <1>1, LeadsOne
<1> QED
  BY <1>2, <1>3 DEF K0, SsbKafkaLab

LEMMA LabSsbTableLab ==
  ASSUME NEW b, NEW K,
         {"kafka"} \subseteq Still(K),
         {"iot_enriched"} \cap K = {}
  PROVE  Leads("setup", SsbTableLab, K, K \cup {"iot_enriched"}, b)
<1> DEFINE K0 == K
           K1 == K0 \cup {"iot_enriched"}
<1>a. {"iot_enriched"} \subseteq Artefacts
  BY DEF Artefacts, Providers, Tables, Udfs, Groups, Controllers, Processors, Connections,
         EdgeProcessors, EdgeConnections
<1>1. Step("setup", Make("iot_enriched"), K0, K1, b)
  BY <1>a, StepMake DEF NeedsOn, Uses, Still, Residue
<1>2. K1 = K \cup {"iot_enriched"}
  OBVIOUS
<1> HIDE DEF K0, K1
<1>3. Leads("setup", <<Make("iot_enriched")>>, K0, K1, b)
  BY <1>1, LeadsOne
<1> QED
  BY <1>2, <1>3 DEF K0, SsbTableLab

LEMMA LabSsbRegistryLab ==
  ASSUME NEW b, NEW K,
         {"kafka"} \subseteq Still(K),
         {"schema_avro", "sr"} \cap K = {}
  PROVE  Leads("setup", SsbRegistryLab, K, K \cup {"schema_avro", "sr"}, b)
<1> DEFINE K0 == K
           K1 == K0 \cup {"schema_avro"}
           K2 == K1 \cup {"sr"}
<1>a. {"schema_avro", "sr"} \subseteq Artefacts
  BY DEF Artefacts, Providers, Tables, Udfs, Groups, Controllers, Processors, Connections,
         EdgeProcessors, EdgeConnections
<1>1. Step("setup", Make("schema_avro"), K0, K1, b)
  BY <1>a, StepMake DEF NeedsOn, Uses, Still, Residue
<1>2. Step("setup", Make("sr"), K1, K2, b)
  BY <1>a, StepMake DEF NeedsOn, Uses, Still, Residue
<1>3. K2 = K \cup {"schema_avro", "sr"}
  OBVIOUS
<1> HIDE DEF K0, K1, K2
<1>4. Leads("setup", <<Make("schema_avro"), Make("sr")>>, K0, K2, b)
  BY <1>1, <1>2, LeadsTwo
<1> QED
  BY <1>3, <1>4 DEF K0, SsbRegistryLab

LEMMA LabCdcBefore ==
  ASSUME NEW b, NEW K,
         {"transactions_cdc", "trans_replica", "trans_changelog"} \cap K = {}
  PROVE  Leads("setup", CdcBefore, K, K, b)
<1> DEFINE K0 == K
           K1 == K0
<1>1. Step("setup", Drop(CdcTables), K0, K1, b)
  BY StepClear DEF CdcTables, Plains, Artefacts, Tables, Controllers
<1>2. K1 = K
  OBVIOUS
<1> HIDE DEF K0, K1
<1>3. Leads("setup", <<Drop(CdcTables)>>, K0, K1, b)
  BY <1>1, LeadsOne
<1> QED
  BY <1>2, <1>3 DEF K0, CdcBefore

LEMMA LabCdcTableLab ==
  ASSUME NEW b, NEW K,
         {"transactions_cdc"} \cap K = {}
  PROVE  Leads("setup", CdcTableLab, K, K \cup {"transactions_cdc"}, b)
<1> DEFINE K0 == K
           K1 == K0 \cup {"transactions_cdc"}
<1>a. {"transactions_cdc"} \subseteq Artefacts
  BY DEF Artefacts, Providers, Tables, Udfs, Groups, Controllers, Processors, Connections,
         EdgeProcessors, EdgeConnections
<1>1. Step("setup", Make("transactions_cdc"), K0, K1, b)
  BY <1>a, StepMake DEF NeedsOn, Uses, Still, Residue
<1>2. K1 = K \cup {"transactions_cdc"}
  OBVIOUS
<1> HIDE DEF K0, K1
<1>3. Leads("setup", <<Make("transactions_cdc")>>, K0, K1, b)
  BY <1>1, LeadsOne
<1> QED
  BY <1>2, <1>3 DEF K0, CdcTableLab

LEMMA LabCdcCaptureLab ==
  ASSUME NEW b, NEW K
  PROVE  Leads("setup", CdcCaptureLab, K, K \cup {"lab3"}, b)
<1> DEFINE K0 == K
           K1 == K0 \cup {"lab3"}
           K2 == K1
<1>1. Step("setup", Submit("lab3"), K0, K1, b)
  BY StepSubmit DEF JobNames
<1>2. Step("setup", Stop("lab3", 3), K1, K2, b)
  BY StepStop DEF JobNames
<1>3. K2 = K \cup {"lab3"}
  OBVIOUS
<1> HIDE DEF K0, K1, K2
<1>4. Leads("setup", <<Submit("lab3"), Stop("lab3", 3)>>, K0, K2, b)
  BY <1>1, <1>2, LeadsTwo
<1> QED
  BY <1>3, <1>4 DEF K0, CdcCaptureLab

LEMMA LabCdcReplicateLab ==
  ASSUME NEW b, NEW K,
         {"trans_replica"} \cap K = {}
  PROVE  Leads("setup", CdcReplicateLab, K, K \cup {"trans_replica", "lab4"}, b)
<1> DEFINE K0 == K
           K1 == K0 \cup {"trans_replica"}
           K2 == K1 \cup {"lab4"}
           K3 == K2
<1>a. {"trans_replica"} \subseteq Artefacts
  BY DEF Artefacts, Providers, Tables, Udfs, Groups, Controllers, Processors, Connections,
         EdgeProcessors, EdgeConnections
<1>1. Step("setup", Make("trans_replica"), K0, K1, b)
  BY <1>a, StepMake DEF NeedsOn, Uses, Still, Residue
<1>2. Step("setup", Submit("lab4"), K1, K2, b)
  BY StepSubmit DEF JobNames
<1>3. Step("setup", Stop("lab4", 3), K2, K3, b)
  BY StepStop DEF JobNames
<1>4. K3 = K \cup {"trans_replica", "lab4"}
  OBVIOUS
<1> HIDE DEF K0, K1, K2, K3
<1>5. Leads("setup", <<Make("trans_replica"), Submit("lab4"), Stop("lab4", 3)>>, K0, K3, b)
  BY <1>1, <1>2, <1>3, LeadsThree
<1> QED
  BY <1>4, <1>5 DEF K0, CdcReplicateLab

LEMMA LabCdcChangelogLab ==
  ASSUME NEW b, NEW K,
         {"trans_changelog"} \cap K = {}
  PROVE  Leads("setup", CdcChangelogLab, K, K \cup {"trans_changelog", "lab5"}, b)
<1> DEFINE K0 == K
           K1 == K0 \cup {"trans_changelog"}
           K2 == K1 \cup {"lab5"}
           K3 == K2
<1>a. {"trans_changelog"} \subseteq Artefacts
  BY DEF Artefacts, Providers, Tables, Udfs, Groups, Controllers, Processors, Connections,
         EdgeProcessors, EdgeConnections
<1>1. Step("setup", Make("trans_changelog"), K0, K1, b)
  BY <1>a, StepMake DEF NeedsOn, Uses, Still, Residue
<1>2. Step("setup", Submit("lab5"), K1, K2, b)
  BY StepSubmit DEF JobNames
<1>3. Step("setup", Stop("lab5", 0), K2, K3, b)
  BY StepStop DEF JobNames
<1>4. K3 = K \cup {"trans_changelog", "lab5"}
  OBVIOUS
<1> HIDE DEF K0, K1, K2, K3
<1>5. Leads("setup", <<Make("trans_changelog"), Submit("lab5"), Stop("lab5", 0)>>, K0, K3, b)
  BY <1>1, <1>2, <1>3, LeadsThree
<1> QED
  BY <1>4, <1>5 DEF K0, CdcChangelogLab

LEMMA LabFraudSchemaLab ==
  ASSUME NEW b, NEW K,
         {"schema"} \cap K = {}
  PROVE  Leads("setup", FraudSchemaLab, K, K \cup {"schema"}, b)
<1> DEFINE K0 == K
           K1 == K0 \cup {"schema"}
<1>a. {"schema"} \subseteq Artefacts
  BY DEF Artefacts, Providers, Tables, Udfs, Groups, Controllers, Processors, Connections,
         EdgeProcessors, EdgeConnections
<1>1. Step("setup", Make("schema"), K0, K1, b)
  BY <1>a, StepMake DEF NeedsOn, Uses, Still, Residue
<1>2. K1 = K \cup {"schema"}
  OBVIOUS
<1> HIDE DEF K0, K1
<1>3. Leads("setup", <<Make("schema")>>, K0, K1, b)
  BY <1>1, LeadsOne
<1> QED
  BY <1>2, <1>3 DEF K0, FraudSchemaLab

LEMMA LabFraudFlowRegistry ==
  ASSUME NEW b, NEW K,
         {"reg_client", "fraud_pg", "flow"} \cap K = {}
  PROVE  Leads("setup", FraudFlowRegistry, K, K
           \cup {"bucket", "reg_client", "fraud_pg", "flow"}, b)
<1> DEFINE K0 == K
           K1 == K0 \cup {"bucket"}
           K2 == K1 \cup {"reg_client"}
           K3 == K2 \cup {"fraud_pg"}
           K4 == K3 \cup {"flow"}
<1>a. {"bucket", "reg_client", "fraud_pg", "flow"} \subseteq Artefacts
  BY DEF Artefacts, Providers, Tables, Udfs, Groups, Controllers, Processors, Connections,
         EdgeProcessors, EdgeConnections
<1>1. Step("setup", Find("bucket"), K0, K1, b)
  BY <1>a, StepFind DEF NeedsOn, Uses, Still
<1>2. Step("setup", Make("reg_client"), K1, K2, b)
  BY <1>a, StepMake DEF NeedsOn, Uses, Still, Residue
<1>3. Step("setup", Make("fraud_pg"), K2, K3, b)
  BY <1>a, StepMake DEF NeedsOn, Uses, Still, Residue
<1>4. Step("setup", Make("flow"), K3, K4, b)
  BY <1>a, StepMake DEF NeedsOn, Uses, Still, Residue
<1>5. K4 = K \cup {"bucket", "reg_client", "fraud_pg", "flow"}
  OBVIOUS
<1> HIDE DEF K0, K1, K2, K3, K4
<1>6. Leads("setup", <<Find("bucket"), Make("reg_client"), Make("fraud_pg"), Make("flow")>>, K0,
        K4, b)
  BY <1>1, <1>2, <1>3, <1>4, LeadsFour
<1> QED
  BY <1>5, <1>6 DEF K0, FraudFlowRegistry

LEMMA LabFraudParameters ==
  ASSUME NEW b, NEW K,
         {"params"} \cap K = {}
  PROVE  Leads("setup", FraudParameters, K, K \cup {"params"}, b)
<1> DEFINE K0 == K
           K1 == K0 \cup {"params"}
<1>a. {"params"} \subseteq Artefacts
  BY DEF Artefacts, Providers, Tables, Udfs, Groups, Controllers, Processors, Connections,
         EdgeProcessors, EdgeConnections
<1>1. Step("setup", Make("params"), K0, K1, b)
  BY <1>a, StepMake DEF NeedsOn, Uses, Still, Residue
<1>2. K1 = K \cup {"params"}
  OBVIOUS
<1> HIDE DEF K0, K1
<1>3. Leads("setup", <<Make("params")>>, K0, K1, b)
  BY <1>1, LeadsOne
<1> QED
  BY <1>2, <1>3 DEF K0, FraudParameters

LEMMA LabFraudOwnControllers ==
  ASSUME NEW b, NEW K,
         {"fraud_pg"} \subseteq Still(K),
         b => {"ssl"} \subseteq Still(K),
         {"registry", "reader", "lookup"} \cap K = {}
  PROVE  Leads("setup", <<Control("registry"), Control("reader"), Control("lookup")>>, K, K
           \cup {"registry", "reader", "lookup"}, b)
<1> DEFINE K0 == K
           K1 == K0 \cup {"registry"}
           K2 == K1 \cup {"reader"}
           K3 == K2 \cup {"lookup"}
<1>a. {"registry", "reader", "lookup"} \subseteq Artefacts
  BY DEF Artefacts, Providers, Tables, Udfs, Groups, Controllers, Processors, Connections,
         EdgeProcessors, EdgeConnections
<1>c. {"registry", "reader", "lookup"} \subseteq Controllers
  BY DEF Controllers
<1>1. Step("setup", Control("registry"), K0, K1, b)
  BY <1>a, <1>c, StepControl DEF NeedsOn, Uses, Still, Residue
<1>2. Step("setup", Control("reader"), K1, K2, b)
  BY <1>a, <1>c, StepControl DEF NeedsOn, Uses, Still, Residue
<1>3. Step("setup", Control("lookup"), K2, K3, b)
  BY <1>a, <1>c, StepControl DEF NeedsOn, Uses, Still, Residue
<1>4. K3 = K \cup {"registry", "reader", "lookup"}
  OBVIOUS
<1> HIDE DEF K0, K1, K2, K3
<1>5. Leads("setup", <<Control("registry"), Control("reader"), Control("lookup")>>, K0, K3, b)
  BY <1>1, <1>2, <1>3, LeadsThree
<1> QED
  BY <1>4, <1>5 DEF K0

LEMMA LabFraudProcessors ==
  ASSUME NEW b, NEW K,
         {"fraud_pg", "reader", "lookup"} \subseteq Still(K),
         b => {"ssl"} \subseteq Still(K),
         {"score", "publish", "flattened", "kafka_failures"} \cap K = {}
  PROVE  Leads("setup", FraudProcessors, K, K
           \cup {"score", "publish", "flattened", "kafka_failures"}, b)
<1> DEFINE K0 == K
           K1 == K0 \cup {"score"}
           K2 == K1 \cup {"publish"}
           K3 == K2 \cup {"flattened"}
           K4 == K3 \cup {"kafka_failures"}
<1>a. {"score", "publish", "flattened", "kafka_failures"} \subseteq Artefacts
  BY DEF Artefacts, Providers, Tables, Udfs, Groups, Controllers, Processors, Connections,
         EdgeProcessors, EdgeConnections
<1>1. Step("setup", Make("score"), K0, K1, b)
  BY <1>a, StepMake DEF NeedsOn, Uses, Still, Residue
<1>2. Step("setup", Make("publish"), K1, K2, b)
  BY <1>a, StepMake DEF NeedsOn, Uses, Still, Residue
<1>3. Step("setup", Make("flattened"), K2, K3, b)
  BY <1>a, StepMake DEF NeedsOn, Uses, Still, Residue
<1>4. Step("setup", Make("kafka_failures"), K3, K4, b)
  BY <1>a, StepMake DEF NeedsOn, Uses, Still, Residue
<1>5. K4 = K \cup {"score", "publish", "flattened", "kafka_failures"}
  OBVIOUS
<1> HIDE DEF K0, K1, K2, K3, K4
<1>6. Leads("setup", <<Make("score"), Make("publish"), Make("flattened"),
        Make("kafka_failures")>>, K0, K4, b)
  BY <1>1, <1>2, <1>3, <1>4, LeadsFour
<1> QED
  BY <1>5, <1>6 DEF K0, FraudProcessors

LEMMA LabFraudGenerators ==
  ASSUME NEW b, NEW K,
         {"fraud_pg", "params"} \subseteq Still(K),
         {"generators_pg", "http_map", "generate", "handle", "response"} \cap K = {}
  PROVE  Leads("setup", FraudGenerators, K, K
           \cup {"generators_pg", "http_map", "generate", "handle", "response"}, b)
<1> DEFINE K0 == K
           K1 == K0 \cup {"generators_pg"}
           K2 == K1 \cup {"http_map"}
           K3 == K2 \cup {"generate"}
           K4 == K3 \cup {"handle"}
           K5 == K4 \cup {"response"}
<1>a. {"generators_pg", "http_map", "generate", "handle", "response"} \subseteq Artefacts
  BY DEF Artefacts, Providers, Tables, Udfs, Groups, Controllers, Processors, Connections,
         EdgeProcessors, EdgeConnections
<1>c. {"http_map"} \subseteq Controllers
  BY DEF Controllers
<1>1. Step("setup", Make("generators_pg"), K0, K1, b)
  BY <1>a, StepMake DEF NeedsOn, Uses, Still, Residue
<1>2. Step("setup", Control("http_map"), K1, K2, b)
  BY <1>a, <1>c, StepControl DEF NeedsOn, Uses, Still, Residue
<1>3. Step("setup", Make("generate"), K2, K3, b)
  BY <1>a, StepMake DEF NeedsOn, Uses, Still, Residue
<1>4. Step("setup", Make("handle"), K3, K4, b)
  BY <1>a, StepMake DEF NeedsOn, Uses, Still, Residue
<1>5. Step("setup", Make("response"), K4, K5, b)
  BY <1>a, StepMake DEF NeedsOn, Uses, Still, Residue
<1>6. K5 = K \cup {"generators_pg", "http_map", "generate", "handle", "response"}
  OBVIOUS
<1> HIDE DEF K0, K1, K2, K3, K4, K5
<1>7. Leads("setup", <<Make("generators_pg"), Control("http_map"), Make("generate"),
        Make("handle"), Make("response")>>, K0, K5, b)
  BY <1>1, <1>2, <1>3, <1>4, <1>5, LeadsFive
<1> QED
  BY <1>6, <1>7 DEF K0, FraudGenerators

LEMMA LabFraudStart ==
  ASSUME NEW b, NEW K
  PROVE  Leads("setup", FraudStart, K, K, b)
<1> DEFINE K0 == K
           K1 == K0
<1>1. Step("setup", Plain("start"), K0, K1, b)
  BY StepStart
<1>2. K1 = K
  OBVIOUS
<1> HIDE DEF K0, K1
<1>3. Leads("setup", <<Plain("start")>>, K0, K1, b)
  BY <1>1, LeadsOne
<1> QED
  BY <1>2, <1>3 DEF K0, FraudStart

LEMMA LabFraudKafkaLab ==
  ASSUME NEW b, NEW K,
         {"kafka"} \cap K = {}
  PROVE  Leads("setup", FraudKafkaLab, K, K \cup {"kafka"}, b)
<1> DEFINE K0 == K
           K1 == K0 \cup {"kafka"}
<1>a. {"kafka"} \subseteq Artefacts
  BY DEF Artefacts, Providers, Tables, Udfs, Groups, Controllers, Processors, Connections,
         EdgeProcessors, EdgeConnections
<1>1. Step("setup", Make("kafka"), K0, K1, b)
  BY <1>a, StepMake DEF NeedsOn, Uses, Still, Residue
<1>2. K1 = K \cup {"kafka"}
  OBVIOUS
<1> HIDE DEF K0, K1
<1>3. Leads("setup", <<Make("kafka")>>, K0, K1, b)
  BY <1>1, LeadsOne
<1> QED
  BY <1>2, <1>3 DEF K0, FraudKafkaLab

LEMMA LabFraudKuduLab ==
  ASSUME NEW b, NEW K,
         {"kudu"} \cap K = {}
  PROVE  Leads("setup", FraudKuduLab, K, K \cup {"kudu"}, b)
<1> DEFINE K0 == K
           K1 == K0 \cup {"kudu"}
<1>a. {"kudu"} \subseteq Artefacts
  BY DEF Artefacts, Providers, Tables, Udfs, Groups, Controllers, Processors, Connections,
         EdgeProcessors, EdgeConnections
<1>1. Step("setup", Make("kudu"), K0, K1, b)
  BY <1>a, StepMake DEF NeedsOn, Uses, Still, Residue
<1>2. K1 = K \cup {"kudu"}
  OBVIOUS
<1> HIDE DEF K0, K1
<1>3. Leads("setup", <<Make("kudu")>>, K0, K1, b)
  BY <1>1, LeadsOne
<1> QED
  BY <1>2, <1>3 DEF K0, FraudKuduLab

LEMMA LabFraudTablesLab ==
  ASSUME NEW b, NEW K,
         {"kafka"} \subseteq Still(K)
  PROVE  Leads("setup", FraudTablesLab, K, K \cup {"fraud_tables"}, b)
<1> DEFINE K0 == K
           K1 == K0 \cup {"fraud_tables"}
<1>a. {"fraud_tables"} \subseteq Artefacts
  BY DEF Artefacts, Providers, Tables, Udfs, Groups, Controllers, Processors, Connections,
         EdgeProcessors, EdgeConnections
<1>1. Step("setup", Find("fraud_tables"), K0, K1, b)
  BY <1>a, StepFind DEF NeedsOn, Uses, Still
<1>2. K1 = K \cup {"fraud_tables"}
  OBVIOUS
<1> HIDE DEF K0, K1
<1>3. Leads("setup", <<Find("fraud_tables")>>, K0, K1, b)
  BY <1>1, LeadsOne
<1> QED
  BY <1>2, <1>3 DEF K0, FraudTablesLab

LEMMA LabFraudUdfLab ==
  ASSUME NEW b, NEW K,
         {"havetokm", "to_kudu_string"} \cap K = {}
  PROVE  Leads("setup", FraudUdfLab, K, K \cup {"havetokm", "to_kudu_string"}, b)
<1> DEFINE K0 == K
           K1 == K0 \cup {"havetokm"}
           K2 == K1 \cup {"to_kudu_string"}
<1>a. {"havetokm", "to_kudu_string"} \subseteq Artefacts
  BY DEF Artefacts, Providers, Tables, Udfs, Groups, Controllers, Processors, Connections,
         EdgeProcessors, EdgeConnections
<1>1. Step("setup", Make("havetokm"), K0, K1, b)
  BY <1>a, StepMake DEF NeedsOn, Uses, Still, Residue
<1>2. Step("setup", Make("to_kudu_string"), K1, K2, b)
  BY <1>a, StepMake DEF NeedsOn, Uses, Still, Residue
<1>3. K2 = K \cup {"havetokm", "to_kudu_string"}
  OBVIOUS
<1> HIDE DEF K0, K1, K2
<1>4. Leads("setup", <<Make("havetokm"), Make("to_kudu_string")>>, K0, K2, b)
  BY <1>1, <1>2, LeadsTwo
<1> QED
  BY <1>3, <1>4 DEF K0, FraudUdfLab

LEMMA LabFraudJobLab ==
  ASSUME NEW b, NEW K
  PROVE  Leads("setup", FraudJobLab, K, K \cup {"fraud_detection_job"}, b)
<1> DEFINE K0 == K
           K1 == K0 \cup {"fraud_detection_job"}
<1>1. Step("setup", Submit("fraud_detection_job"), K0, K1, b)
  BY StepSubmit DEF JobNames
<1>2. K1 = K \cup {"fraud_detection_job"}
  OBVIOUS
<1> HIDE DEF K0, K1
<1>3. Leads("setup", <<Submit("fraud_detection_job")>>, K0, K1, b)
  BY <1>1, LeadsOne
<1> QED
  BY <1>2, <1>3 DEF K0, FraudJobLab

LEMMA LabFraudConnectionLab ==
  ASSUME NEW b, NEW K,
         {"viz_connection"} \cap K = {}
  PROVE  Leads("setup", FraudConnectionLab, K, K \cup {"viz_connection"}, b)
<1> DEFINE K0 == K
           K1 == K0 \cup {"viz_connection"}
<1>a. {"viz_connection"} \subseteq Artefacts
  BY DEF Artefacts, Providers, Tables, Udfs, Groups, Controllers, Processors, Connections,
         EdgeProcessors, EdgeConnections
<1>1. Step("setup", Make("viz_connection"), K0, K1, b)
  BY <1>a, StepMake DEF NeedsOn, Uses, Still, Residue
<1>2. K1 = K \cup {"viz_connection"}
  OBVIOUS
<1> HIDE DEF K0, K1
<1>3. Leads("setup", <<Make("viz_connection")>>, K0, K1, b)
  BY <1>1, LeadsOne
<1> QED
  BY <1>2, <1>3 DEF K0, FraudConnectionLab

LEMMA LabFraudVizLab ==
  ASSUME NEW b, NEW K,
         {"viz_connection"} \subseteq Still(K),
         {"viz_dataset"} \cap K = {}
  PROVE  Leads("setup", FraudVizLab, K, K \cup {"viz_dataset"}, b)
<1> DEFINE K0 == K
           K1 == K0 \cup {"viz_dataset"}
<1>a. {"viz_dataset"} \subseteq Artefacts
  BY DEF Artefacts, Providers, Tables, Udfs, Groups, Controllers, Processors, Connections,
         EdgeProcessors, EdgeConnections
<1>1. Step("setup", Make("viz_dataset"), K0, K1, b)
  BY <1>a, StepMake DEF NeedsOn, Uses, Still, Residue
<1>2. K1 = K \cup {"viz_dataset"}
  OBVIOUS
<1> HIDE DEF K0, K1
<1>3. Leads("setup", <<Make("viz_dataset")>>, K0, K1, b)
  BY <1>1, LeadsOne
<1> QED
  BY <1>2, <1>3 DEF K0, FraudVizLab

LEMMA LabEdgeSimulatorLab ==
  ASSUME NEW b, NEW K,
         {"gen_data"} \cap K = {}
  PROVE  Leads("setup", EdgeSimulatorLab, K, K \cup {"gen_data"}, b)
<1> DEFINE K0 == K
           K1 == K0 \cup {"gen_data"}
           K2 == K1
<1>a. {"gen_data"} \subseteq Artefacts
  BY DEF Artefacts, Providers, Tables, Udfs, Groups, Controllers, Processors, Connections,
         EdgeProcessors, EdgeConnections
<1>1. Step("setup", Make("gen_data"), K0, K1, b)
  BY <1>a, StepMake DEF NeedsOn, Uses, Still, Residue
<1>2. Step("setup", Run({"gen_data"}), K1, K2, b)
  BY StepRun DEF Processors, Still
<1>3. K2 = K \cup {"gen_data"}
  OBVIOUS
<1> HIDE DEF K0, K1, K2
<1>4. Leads("setup", <<Make("gen_data"), Run({"gen_data"})>>, K0, K2, b)
  BY <1>1, <1>2, LeadsTwo
<1> QED
  BY <1>3, <1>4 DEF K0, EdgeSimulatorLab

LEMMA LabEdgeFlowLab ==
  ASSUME NEW b, NEW K,
         {"from_gw", "temp_funnel", "gateway", "consume_mqtt", "nifi_rpg",
           "consume_conn"} \cap K = {}
  PROVE  Leads("setup", EdgeFlowLab, K, K
           \cup {"from_gw", "temp_funnel", "gateway", "consume_mqtt", "nifi_rpg", "consume_conn",
           "edge_bucket"}, b)
<1> DEFINE K0 == K
           K1 == K0 \cup {"from_gw"}
           K2 == K1 \cup {"temp_funnel"}
           K3 == K2 \cup {"gateway"}
           K4 == K3 \cup {"consume_mqtt"}
           K5 == K4 \cup {"nifi_rpg"}
           K6 == K5 \cup {"consume_conn"}
           K7 == K6 \cup {"edge_bucket"}
<1>a. {"from_gw", "temp_funnel", "gateway", "consume_mqtt", "nifi_rpg", "consume_conn",
        "edge_bucket"} \subseteq Artefacts
  BY DEF Artefacts, Providers, Tables, Udfs, Groups, Controllers, Processors, Connections,
         EdgeProcessors, EdgeConnections
<1>1. Step("setup", Make("from_gw"), K0, K1, b)
  BY <1>a, StepMake DEF NeedsOn, Uses, Still, Residue
<1>2. Step("setup", Make("temp_funnel"), K1, K2, b)
  BY <1>a, StepMake DEF NeedsOn, Uses, Still, Residue
<1>3. Step("setup", Make("gateway"), K2, K3, b)
  BY <1>a, StepMake DEF NeedsOn, Uses, Still, Residue
<1>4. Step("setup", Make("consume_mqtt"), K3, K4, b)
  BY <1>a, StepMake DEF NeedsOn, Uses, Still, Residue
<1>5. Step("setup", Make("nifi_rpg"), K4, K5, b)
  BY <1>a, StepMake DEF NeedsOn, Uses, Still, Residue
<1>6. Step("setup", Make("consume_conn"), K5, K6, b)
  BY <1>a, StepMake DEF NeedsOn, Uses, Still, Residue
<1>7. Step("setup", Find("edge_bucket"), K6, K7, b)
  BY <1>a, StepFind DEF NeedsOn, Uses, Still
<1>8. K7 = K \cup {"from_gw", "temp_funnel", "gateway", "consume_mqtt", "nifi_rpg",
        "consume_conn", "edge_bucket"}
  OBVIOUS
<1> HIDE DEF K0, K1, K2, K3, K4, K5, K6, K7
<1>9. Leads("setup", <<Make("from_gw"), Make("temp_funnel"), Make("gateway"),
        Make("consume_mqtt"), Make("nifi_rpg"), Make("consume_conn"), Find("edge_bucket")>>, K0,
        K7, b)
  BY <1>1, <1>2, <1>3, <1>4, <1>5, <1>6, <1>7, LeadsSeven
<1> QED
  BY <1>8, <1>9 DEF K0, EdgeFlowLab

LEMMA LabEdgeExpandLab ==
  ASSUME NEW b, NEW K,
         {"consume_mqtt", "nifi_rpg", "from_gw"} \subseteq Still(K),
         {"extract_proc", "filter_proc", "extracted", "valid"} \cap K = {}
  PROVE  Leads("setup", EdgeExpandLab, K, K
           \cup {"extract_proc", "filter_proc", "extracted", "valid"}, b)
<1> DEFINE K0 == K
           K1 == K0 \cup {"extract_proc"}
           K2 == K1 \cup {"filter_proc"}
           K3 == K2
           K4 == K3 \cup {"extracted"}
           K5 == K4 \cup {"valid"}
<1>a. {"extract_proc", "filter_proc", "extracted", "valid"} \subseteq Artefacts
  BY DEF Artefacts, Providers, Tables, Udfs, Groups, Controllers, Processors, Connections,
         EdgeProcessors, EdgeConnections
<1>1. Step("setup", Make("extract_proc"), K0, K1, b)
  BY <1>a, StepMake DEF NeedsOn, Uses, Still, Residue
<1>2. Step("setup", Make("filter_proc"), K1, K2, b)
  BY <1>a, StepMake DEF NeedsOn, Uses, Still, Residue
<1>3. Step("setup", DeleteEach({"consume_conn"}), K2, K3, b)
  BY StepReplace
<1>4. Step("setup", Make("extracted"), K3, K4, b)
  BY <1>a, StepMake DEF NeedsOn, Uses, Still, Residue
<1>5. Step("setup", Make("valid"), K4, K5, b)
  BY <1>a, StepMake DEF NeedsOn, Uses, Still, Residue
<1>6. K5 = K \cup {"extract_proc", "filter_proc", "extracted", "valid"}
  OBVIOUS
<1> HIDE DEF K0, K1, K2, K3, K4, K5
<1>7. Leads("setup", <<Make("extract_proc"), Make("filter_proc"), DeleteEach({"consume_conn"}),
        Make("extracted"), Make("valid")>>, K0, K5, b)
  BY <1>1, <1>2, <1>3, <1>4, <1>5, LeadsFive
<1> QED
  BY <1>6, <1>7 DEF K0, EdgeExpandLab

LEMMA LabNifiSchemaLab ==
  ASSUME NEW b, NEW K,
         {"schema"} \cap K = {}
  PROVE  Leads("setup", NifiSchemaLab, K, K \cup {"schema"}, b)
<1> DEFINE K0 == K
           K1 == K0 \cup {"schema"}
<1>a. {"schema"} \subseteq Artefacts
  BY DEF Artefacts, Providers, Tables, Udfs, Groups, Controllers, Processors, Connections,
         EdgeProcessors, EdgeConnections
<1>1. Step("setup", Make("schema"), K0, K1, b)
  BY <1>a, StepMake DEF NeedsOn, Uses, Still, Residue
<1>2. K1 = K \cup {"schema"}
  OBVIOUS
<1> HIDE DEF K0, K1
<1>3. Leads("setup", <<Make("schema")>>, K0, K1, b)
  BY <1>1, LeadsOne
<1> QED
  BY <1>2, <1>3 DEF K0, NifiSchemaLab

LEMMA LabNifiGroup ==
  ASSUME NEW b, NEW K,
         {"reg_client", "sensor_pg", "flow"} \cap K = {}
  PROVE  Leads("setup", <<Find("bucket"), Make("reg_client"), Make("sensor_pg"), Make("flow")>>,
           K, K \cup {"bucket", "reg_client", "sensor_pg", "flow"}, b)
<1> DEFINE K0 == K
           K1 == K0 \cup {"bucket"}
           K2 == K1 \cup {"reg_client"}
           K3 == K2 \cup {"sensor_pg"}
           K4 == K3 \cup {"flow"}
<1>a. {"bucket", "reg_client", "sensor_pg", "flow"} \subseteq Artefacts
  BY DEF Artefacts, Providers, Tables, Udfs, Groups, Controllers, Processors, Connections,
         EdgeProcessors, EdgeConnections
<1>1. Step("setup", Find("bucket"), K0, K1, b)
  BY <1>a, StepFind DEF NeedsOn, Uses, Still
<1>2. Step("setup", Make("reg_client"), K1, K2, b)
  BY <1>a, StepMake DEF NeedsOn, Uses, Still, Residue
<1>3. Step("setup", Make("sensor_pg"), K2, K3, b)
  BY <1>a, StepMake DEF NeedsOn, Uses, Still, Residue
<1>4. Step("setup", Make("flow"), K3, K4, b)
  BY <1>a, StepMake DEF NeedsOn, Uses, Still, Residue
<1>5. K4 = K \cup {"bucket", "reg_client", "sensor_pg", "flow"}
  OBVIOUS
<1> HIDE DEF K0, K1, K2, K3, K4
<1>6. Leads("setup", <<Find("bucket"), Make("reg_client"), Make("sensor_pg"), Make("flow")>>, K0,
        K4, b)
  BY <1>1, <1>2, <1>3, <1>4, LeadsFour
<1> QED
  BY <1>5, <1>6 DEF K0

LEMMA LabNifiOwnControllers ==
  ASSUME NEW b, NEW K,
         {"sensor_pg", "gen_data"} \subseteq Still(K),
         b => {"keytab_svc", "ssl"} \subseteq Still(K),
         {"sr_svc", "json_reader_svc", "pub_kafka", "pub_failures"} \cap K = {}
  PROVE  Leads("setup", <<Control("sr_svc"), Control("json_reader_svc"), Make("pub_kafka"),
           Make("pub_failures"),
                          Run({"gen_data", "pub_kafka"})>>, K, K
                            \cup {"sr_svc", "json_reader_svc", "pub_kafka", "pub_failures"}, b)
<1> DEFINE K0 == K
           K1 == K0 \cup {"sr_svc"}
           K2 == K1 \cup {"json_reader_svc"}
           K3 == K2 \cup {"pub_kafka"}
           K4 == K3 \cup {"pub_failures"}
           K5 == K4
<1>a. {"sr_svc", "json_reader_svc", "pub_kafka", "pub_failures"} \subseteq Artefacts
  BY DEF Artefacts, Providers, Tables, Udfs, Groups, Controllers, Processors, Connections,
         EdgeProcessors, EdgeConnections
<1>c. {"sr_svc", "json_reader_svc"} \subseteq Controllers
  BY DEF Controllers
<1>1. Step("setup", Control("sr_svc"), K0, K1, b)
  BY <1>a, <1>c, StepControl DEF NeedsOn, Uses, Still, Residue
<1>2. Step("setup", Control("json_reader_svc"), K1, K2, b)
  BY <1>a, <1>c, StepControl DEF NeedsOn, Uses, Still, Residue
<1>3. Step("setup", Make("pub_kafka"), K2, K3, b)
  BY <1>a, StepMake DEF NeedsOn, Uses, Still, Residue
<1>4. Step("setup", Make("pub_failures"), K3, K4, b)
  BY <1>a, StepMake DEF NeedsOn, Uses, Still, Residue
<1>5. Step("setup", Run({"gen_data", "pub_kafka"}), K4, K5, b)
  BY StepRun DEF Processors, Still
<1>6. K5 = K \cup {"sr_svc", "json_reader_svc", "pub_kafka", "pub_failures"}
  OBVIOUS
<1> HIDE DEF K0, K1, K2, K3, K4, K5
<1>7. Leads("setup", <<Control("sr_svc"), Control("json_reader_svc"), Make("pub_kafka"),
        Make("pub_failures"), Run({"gen_data", "pub_kafka"})>>, K0, K5, b)
  BY <1>1, <1>2, <1>3, <1>4, <1>5, LeadsFive
<1> QED
  BY <1>6, <1>7 DEF K0

LEMMA LabNifiScoreLab ==
  ASSUME NEW b, NEW K,
         {"sensor_pg", "sr_svc", "json_reader_svc", "gen_data", "pub_kafka"} \subseteq Still(K),
         b => {"ssl", "keytab_svc"} \subseteq Still(K),
         {"json_reader_with_schema_svc", "rest_lookup_svc", "predict", "write_kudu",
           "scored"} \cap K = {}
  PROVE  Leads("setup", NifiScoreLab, K, K
           \cup {"json_reader_with_schema_svc", "rest_lookup_svc", "predict", "write_kudu",
           "scored"}, b)
<1> DEFINE K0 == K
           K1 == K0 \cup {"json_reader_with_schema_svc"}
           K2 == K1 \cup {"rest_lookup_svc"}
           K3 == K2 \cup {"predict"}
           K4 == K3 \cup {"write_kudu"}
           K5 == K4 \cup {"scored"}
           K6 == K5
<1>a. {"json_reader_with_schema_svc", "rest_lookup_svc", "predict", "write_kudu",
        "scored"} \subseteq Artefacts
  BY DEF Artefacts, Providers, Tables, Udfs, Groups, Controllers, Processors, Connections,
         EdgeProcessors, EdgeConnections
<1>c. {"json_reader_with_schema_svc", "rest_lookup_svc"} \subseteq Controllers
  BY DEF Controllers
<1>1. Step("setup", Control("json_reader_with_schema_svc"), K0, K1, b)
  BY <1>a, <1>c, StepControl DEF NeedsOn, Uses, Still, Residue
<1>2. Step("setup", Control("rest_lookup_svc"), K1, K2, b)
  BY <1>a, <1>c, StepControl DEF NeedsOn, Uses, Still, Residue
<1>3. Step("setup", Make("predict"), K2, K3, b)
  BY <1>a, StepMake DEF NeedsOn, Uses, Still, Residue
<1>4. Step("setup", Make("write_kudu"), K3, K4, b)
  BY <1>a, StepMake DEF NeedsOn, Uses, Still, Residue
<1>5. Step("setup", Make("scored"), K4, K5, b)
  BY <1>a, StepMake DEF NeedsOn, Uses, Still, Residue
<1>6. Step("setup", Run({"gen_data", "pub_kafka", "predict", "write_kudu"}), K5, K6, b)
  BY StepRun DEF Processors, Still
<1>7. K6 = K \cup {"json_reader_with_schema_svc", "rest_lookup_svc", "predict", "write_kudu",
        "scored"}
  OBVIOUS
<1> HIDE DEF K0, K1, K2, K3, K4, K5, K6
<1>8. Leads("setup", <<Control("json_reader_with_schema_svc"), Control("rest_lookup_svc"),
        Make("predict"), Make("write_kudu"), Make("scored"), Run({"gen_data", "pub_kafka",
        "predict", "write_kudu"})>>, K0, K6, b)
  BY <1>1, <1>2, <1>3, <1>4, <1>5, <1>6, LeadsSix
<1> QED
  BY <1>7, <1>8 DEF K0, NifiScoreLab

LEMMA LabDatavizSetup ==
  ASSUME NEW b, NEW K,
         {"viz_connection", "viz_dataset"} \cap K = {}
  PROVE  Leads("setup", DatavizSetup, K, K \cup {"viz_connection", "viz_dataset"}, b)
<1> DEFINE K0 == K
           K1 == K0 \cup {"viz_connection"}
           K2 == K1 \cup {"viz_dataset"}
<1>a. {"viz_connection", "viz_dataset"} \subseteq Artefacts
  BY DEF Artefacts, Providers, Tables, Udfs, Groups, Controllers, Processors, Connections,
         EdgeProcessors, EdgeConnections
<1>1. Step("setup", Make("viz_connection"), K0, K1, b)
  BY <1>a, StepMake DEF NeedsOn, Uses, Still, Residue
<1>2. Step("setup", Make("viz_dataset"), K1, K2, b)
  BY <1>a, StepMake DEF NeedsOn, Uses, Still, Residue
<1>3. K2 = K \cup {"viz_connection", "viz_dataset"}
  OBVIOUS
<1> HIDE DEF K0, K1, K2
<1>4. Leads("setup", <<Make("viz_connection"), Make("viz_dataset")>>, K0, K2, b)
  BY <1>1, <1>2, LeadsTwo
<1> QED
  BY <1>3, <1>4 DEF K0, DatavizSetup

LEMMA LeadsNone == ASSUME NEW ph, NEW b, NEW K PROVE Leads(ph, << >>, K, K, b)
<1> DEFINE s == << >>
<1> HIDE DEF Statements
<1>1. Len(s) = 0 /\ s \in Seq(Statements)
  OBVIOUS
<1> HIDE DEF s
<1>2. Works(ph, s, K, b)
  BY <1>1 DEF Works
<1>3. Before(ph, s, Len(s) + 1) = {}
  <2>1. Len(s) + 1 = 1
    BY <1>1
  <2> QED
    BY <2>1, BeforeFirst
<1> QED
  BY <1>1, <1>2, <1>3 DEF Leads, Total, s

\* What a cluster with TLS has besides.
LEMMA LabFraudSsl ==
  ASSUME NEW b, NEW K, "ssl" \notin K, \A y \in K : "ssl" \notin Uses(y)
  PROVE  Leads("setup", IF b THEN <<Control("ssl")>> ELSE << >>, K, K
           \cup (IF b THEN {"ssl"} ELSE {}), b)
<1>c. "ssl" \in Controllers /\ Uses("ssl") = {}
  BY DEF Controllers, Uses
<1>1. CASE b
  <2>1. NeedsOn("ssl", b) \subseteq Still(K)
    BY <1>c DEF NeedsOn
  <2>2. Step("setup", Control("ssl"), K, K \cup {"ssl"}, b)
    BY <1>c, <2>1, StepControl
  <2>3. Leads("setup", <<Control("ssl")>>, K, K \cup {"ssl"}, b)
    BY <2>2, LeadsOne
  <2> QED
    BY <1>1, <2>3
<1>2. CASE ~b
  <2>1. K \cup {} = K
    OBVIOUS
  <2>2. Leads("setup", << >>, K, K, b)
    BY LeadsNone
  <2> QED
    BY <1>2, <2>1, <2>2
<1> QED
  BY <1>1, <1>2

LEMMA LabNifiSsl ==
  ASSUME NEW b, NEW K, {"ssl", "keytab_svc"} \cap K = {}, "sensor_pg" \in Still(K),
         \A y \in K : "ssl" \notin Uses(y)
  PROVE  Leads("setup", IF b THEN <<Control("ssl"), Control("keytab_svc")>> ELSE << >>,
               K, K \cup (IF b THEN {"ssl", "keytab_svc"} ELSE {}), b)
<1>c. {"ssl", "keytab_svc"} \subseteq Controllers /\ Uses("ssl") = {} /\ Uses("keytab_svc") = {"sensor_pg"}
  BY DEF Controllers, Uses
<1>1. CASE b
  <2>1. NeedsOn("ssl", b) \subseteq Still(K)
    BY <1>c DEF NeedsOn
  <2>2. Step("setup", Control("ssl"), K, K \cup {"ssl"}, b)
    BY <1>c, <2>1, StepControl
  <2>3. NeedsOn("keytab_svc", b) \subseteq Still(K \cup {"ssl"}) /\ "keytab_svc" \notin Residue
    BY <1>c DEF NeedsOn, Still, Residue
  <2>4. Step("setup", Control("keytab_svc"), K \cup {"ssl"}, (K \cup {"ssl"})
          \cup {"keytab_svc"}, b)
    BY <1>c, <2>3, StepControl
  <2>5. (K \cup {"ssl"}) \cup {"keytab_svc"} = K \cup {"ssl", "keytab_svc"}
    OBVIOUS
  <2>6. Leads("setup", <<Control("ssl"), Control("keytab_svc")>>, K, K
          \cup {"ssl", "keytab_svc"}, b)
    BY <2>2, <2>4, <2>5, LeadsTwo
  <2> QED
    BY <1>1, <2>6
<1>2. CASE ~b
  <2>1. K \cup {} = K
    OBVIOUS
  <2>2. Leads("setup", << >>, K, K, b)
    BY LeadsNone
  <2> QED
    BY <1>2, <2>1, <2>2
<1> QED
  BY <1>1, <1>2

LEMMA SsbUp ==
  ASSUME NEW b
  PROVE  Leads("setup", SsbSetup, {}, {"kafka", "iot_enriched", "schema_avro", "sr"}, b)
<1> DEFINE K0 == {}
           K1 == K0 \cup {"kafka"}
           K2 == K1 \cup {"iot_enriched"}
           K3 == K2 \cup {"schema_avro", "sr"}
<1>1. Leads("setup", SsbKafkaLab, K0, K1, b)
  BY LabSsbKafkaLab DEF Still
<1>2. Leads("setup", SsbTableLab, K1, K2, b)
  BY LabSsbTableLab DEF Still
<1>3. Leads("setup", SsbRegistryLab, K2, K3, b)
  BY LabSsbRegistryLab DEF Still
<1> HIDE DEF K0, K1, K2, K3
<1>4. Leads("setup", SsbKafkaLab \o SsbTableLab, K0, K2, b)
  BY <1>1, <1>2, LeadsTurn
<1>5. Leads("setup", SsbKafkaLab \o SsbTableLab \o SsbRegistryLab, K0, K3, b)
  BY <1>4, <1>3, LeadsTurn
<1>6. Leads("setup", SsbSetup, K0, K3, b)
  BY <1>5, Zenon DEF SsbSetup
<1> QED
  BY <1>6 DEF K0, K1, K2, K3

LEMMA CdcUp ==
  ASSUME NEW b
  PROVE  Leads("setup", CdcSetup, {}, {"transactions_cdc", "lab3", "trans_replica", "lab4",
           "trans_changelog", "lab5"}, b)
<1> DEFINE K0 == {}
           K1 == K0
           K2 == K1 \cup {"transactions_cdc"}
           K3 == K2 \cup {"lab3"}
           K4 == K3 \cup {"trans_replica", "lab4"}
           K5 == K4 \cup {"trans_changelog", "lab5"}
<1>1. Leads("setup", CdcBefore, K0, K1, b)
  BY LabCdcBefore
<1>2. Leads("setup", CdcTableLab, K1, K2, b)
  BY LabCdcTableLab DEF Still
<1>3. Leads("setup", CdcCaptureLab, K2, K3, b)
  BY LabCdcCaptureLab DEF Still
<1>4. Leads("setup", CdcReplicateLab, K3, K4, b)
  BY LabCdcReplicateLab DEF Still
<1>5. Leads("setup", CdcChangelogLab, K4, K5, b)
  BY LabCdcChangelogLab DEF Still
<1> HIDE DEF K0, K1, K2, K3, K4, K5
<1>6. Leads("setup", CdcBefore \o CdcTableLab, K0, K2, b)
  BY <1>1, <1>2, LeadsTurn
<1>7. Leads("setup", CdcBefore \o CdcTableLab \o CdcCaptureLab, K0, K3, b)
  BY <1>6, <1>3, LeadsTurn
<1>8. Leads("setup", CdcBefore \o CdcTableLab \o CdcCaptureLab \o CdcReplicateLab, K0, K4, b)
  BY <1>7, <1>4, LeadsTurn
<1>9. Leads("setup", CdcBefore \o CdcTableLab \o CdcCaptureLab \o CdcReplicateLab
        \o CdcChangelogLab, K0, K5, b)
  BY <1>8, <1>5, LeadsTurn
<1>10. Leads("setup", CdcSetup, K0, K5, b)
  BY <1>9, Zenon DEF CdcSetup
<1> QED
  BY <1>10 DEF K0, K1, K2, K3, K4, K5

LEMMA FraudUp ==
  ASSUME NEW b
  PROVE  \E L : Leads("setup", FraudSetup(b), {}, L, b) /\ L \subseteq Makes("fraud")
<1> DEFINE K0 == {}
           K1 == K0 \cup {"schema"}
           K2 == K1 \cup {"bucket", "reg_client", "fraud_pg", "flow"}
           K3 == K2 \cup {"params"}
           K4 == K3 \cup (IF b THEN {"ssl"} ELSE {})
           K5 == K4 \cup {"registry", "reader", "lookup"}
           K6 == K5 \cup {"score", "publish", "flattened", "kafka_failures"}
           K7 == K6 \cup {"generators_pg", "http_map", "generate", "handle", "response"}
           K8 == K7
           K9 == K8 \cup {"kafka"}
           K10 == K9 \cup {"kudu"}
           K11 == K10 \cup {"fraud_tables"}
           K12 == K11 \cup {"havetokm", "to_kudu_string"}
           K13 == K12 \cup {"fraud_detection_job"}
           K14 == K13 \cup {"viz_connection"}
           K15 == K14 \cup {"viz_dataset"}
<1>1. Leads("setup", FraudSchemaLab, K0, K1, b)
  BY LabFraudSchemaLab DEF Still
<1>2. Leads("setup", FraudFlowRegistry, K1, K2, b)
  BY LabFraudFlowRegistry DEF Still
<1>3. Leads("setup", FraudParameters, K2, K3, b)
  BY LabFraudParameters DEF Still
<1>4. Leads("setup", (IF b THEN <<Control("ssl")>> ELSE <<>>), K3, K4, b)
  BY LabFraudSsl DEF Uses
<1>5. Leads("setup", <<Control("registry"), Control("reader"), Control("lookup")>>, K4, K5, b)
  BY LabFraudOwnControllers DEF Still
<1>6. Leads("setup", FraudProcessors, K5, K6, b)
  BY LabFraudProcessors DEF Still
<1>7. Leads("setup", FraudGenerators, K6, K7, b)
  BY LabFraudGenerators DEF Still
<1>8. Leads("setup", FraudStart, K7, K8, b)
  BY LabFraudStart
<1>9. Leads("setup", FraudKafkaLab, K8, K9, b)
  BY LabFraudKafkaLab DEF Still
<1>10. Leads("setup", FraudKuduLab, K9, K10, b)
  BY LabFraudKuduLab DEF Still
<1>11. Leads("setup", FraudTablesLab, K10, K11, b)
  BY LabFraudTablesLab DEF Still
<1>12. Leads("setup", FraudUdfLab, K11, K12, b)
  BY LabFraudUdfLab DEF Still
<1>13. Leads("setup", FraudJobLab, K12, K13, b)
  BY LabFraudJobLab DEF Still
<1>14. Leads("setup", FraudConnectionLab, K13, K14, b)
  BY LabFraudConnectionLab DEF Still
<1>15. Leads("setup", FraudVizLab, K14, K15, b)
  BY LabFraudVizLab DEF Still
<1> HIDE DEF K0, K1, K2, K3, K4, K5, K6, K7, K8, K9, K10, K11, K12, K13, K14, K15
<1>16. Leads("setup", (IF b THEN <<Control("ssl")>> ELSE <<>>) \o <<Control("registry"),
         Control("reader"), Control("lookup")>>, K3, K5, b)
  BY <1>4, <1>5, LeadsTurn
<1>17. Leads("setup", FraudControllers(b), K3, K5, b)
  BY <1>16, Zenon DEF FraudControllers
<1>18. Leads("setup", FraudFlowRegistry \o FraudParameters, K1, K3, b)
  BY <1>2, <1>3, LeadsTurn
<1>19. Leads("setup", FraudFlowRegistry \o FraudParameters \o FraudControllers(b), K1, K5, b)
  BY <1>18, <1>17, LeadsTurn
<1>20. Leads("setup", FraudFlowRegistry \o FraudParameters \o FraudControllers(b)
         \o FraudProcessors, K1, K6, b)
  BY <1>19, <1>6, LeadsTurn
<1>21. Leads("setup", FraudFlowRegistry \o FraudParameters \o FraudControllers(b)
         \o FraudProcessors \o FraudGenerators, K1, K7, b)
  BY <1>20, <1>7, LeadsTurn
<1>22. Leads("setup", FraudFlowRegistry \o FraudParameters \o FraudControllers(b)
         \o FraudProcessors \o FraudGenerators \o FraudStart, K1, K8, b)
  BY <1>21, <1>8, LeadsTurn
<1>23. Leads("setup", FraudNifiLab(b), K1, K8, b)
  BY <1>22, Zenon DEF FraudNifiLab
<1>24. Leads("setup", FraudSchemaLab \o FraudNifiLab(b), K0, K8, b)
  BY <1>1, <1>23, LeadsTurn
<1>25. Leads("setup", FraudSchemaLab \o FraudNifiLab(b) \o FraudKafkaLab, K0, K9, b)
  BY <1>24, <1>9, LeadsTurn
<1>26. Leads("setup", FraudSchemaLab \o FraudNifiLab(b) \o FraudKafkaLab \o FraudKuduLab, K0,
         K10, b)
  BY <1>25, <1>10, LeadsTurn
<1>27. Leads("setup", FraudSchemaLab \o FraudNifiLab(b) \o FraudKafkaLab \o FraudKuduLab
         \o FraudTablesLab, K0, K11, b)
  BY <1>26, <1>11, LeadsTurn
<1>28. Leads("setup", FraudSchemaLab \o FraudNifiLab(b) \o FraudKafkaLab \o FraudKuduLab
         \o FraudTablesLab \o FraudUdfLab, K0, K12, b)
  BY <1>27, <1>12, LeadsTurn
<1>29. Leads("setup", FraudSchemaLab \o FraudNifiLab(b) \o FraudKafkaLab \o FraudKuduLab
         \o FraudTablesLab \o FraudUdfLab \o FraudJobLab, K0, K13, b)
  BY <1>28, <1>13, LeadsTurn
<1>30. Leads("setup", FraudSchemaLab \o FraudNifiLab(b) \o FraudKafkaLab \o FraudKuduLab
         \o FraudTablesLab \o FraudUdfLab \o FraudJobLab \o FraudConnectionLab, K0, K14, b)
  BY <1>29, <1>14, LeadsTurn
<1>31. Leads("setup", FraudSchemaLab \o FraudNifiLab(b) \o FraudKafkaLab \o FraudKuduLab
         \o FraudTablesLab \o FraudUdfLab \o FraudJobLab \o FraudConnectionLab \o FraudVizLab,
         K0, K15, b)
  BY <1>30, <1>15, LeadsTurn
<1>32. Leads("setup", FraudSetup(b), K0, K15, b)
  BY <1>31, Zenon DEF FraudSetup
<1>33. K0 = {} /\ K15 \subseteq Makes("fraud")
  BY DEF Makes, K0, K1, K2, K3, K4, K5, K6, K7, K8, K9, K10, K11, K12, K13, K14, K15
<1> QED
  BY <1>32, <1>33

LEMMA NifiUp ==
  ASSUME NEW b
  PROVE  \E L : Leads("setup", NifiSetup(b), {}, L, b) /\ L \subseteq Makes("nifi")
<1> DEFINE K0 == {}
           K1 == K0 \cup {"gen_data"}
           K2 == K1
             \cup {"from_gw", "temp_funnel", "gateway", "consume_mqtt", "nifi_rpg",
             "consume_conn", "edge_bucket"}
           K3 == K2 \cup {"extract_proc", "filter_proc", "extracted", "valid"}
           K4 == K3 \cup {"schema"}
           K5 == K4 \cup {"bucket", "reg_client", "sensor_pg", "flow"}
           K6 == K5 \cup (IF b THEN {"ssl", "keytab_svc"} ELSE {})
           K7 == K6 \cup {"sr_svc", "json_reader_svc", "pub_kafka", "pub_failures"}
           K8 == K7
             \cup {"json_reader_with_schema_svc", "rest_lookup_svc", "predict", "write_kudu",
             "scored"}
<1>1. Leads("setup", EdgeSimulatorLab, K0, K1, b)
  BY LabEdgeSimulatorLab DEF Still
<1>2. Leads("setup", EdgeFlowLab, K1, K2, b)
  BY LabEdgeFlowLab DEF Still
<1>3. Leads("setup", EdgeExpandLab, K2, K3, b)
  BY LabEdgeExpandLab DEF Still
<1>4. Leads("setup", NifiSchemaLab, K3, K4, b)
  BY LabNifiSchemaLab DEF Still
<1>5. Leads("setup", <<Find("bucket"), Make("reg_client"), Make("sensor_pg"), Make("flow")>>, K4,
        K5, b)
  BY LabNifiGroup DEF Still
<1>6. Leads("setup", (IF b THEN <<Control("ssl"), Control("keytab_svc")>> ELSE <<>>), K5, K6, b)
  BY LabNifiSsl DEF Uses, Still
<1>7. Leads("setup", <<Control("sr_svc"), Control("json_reader_svc"), Make("pub_kafka"),
        Make("pub_failures"),
            Run({"gen_data", "pub_kafka"})>>, K6, K7, b)
  BY LabNifiOwnControllers DEF Still
<1>8. Leads("setup", NifiScoreLab, K7, K8, b)
  BY LabNifiScoreLab DEF Still
<1> HIDE DEF K0, K1, K2, K3, K4, K5, K6, K7, K8
<1>9. Leads("setup", EdgeSimulatorLab \o EdgeFlowLab, K0, K2, b)
  BY <1>1, <1>2, LeadsTurn
<1>10. Leads("setup", EdgeSimulatorLab \o EdgeFlowLab \o EdgeExpandLab, K0, K3, b)
  BY <1>9, <1>3, LeadsTurn
<1>11. Leads("setup", EdgeSetup, K0, K3, b)
  BY <1>10, Zenon DEF EdgeSetup
<1>12. Leads("setup", <<Find("bucket"), Make("reg_client"), Make("sensor_pg"), Make("flow")>>
         \o (IF b THEN <<Control("ssl"), Control("keytab_svc")>> ELSE <<>>), K4, K6, b)
  BY <1>5, <1>6, LeadsTurn
<1>13. Leads("setup", <<Find("bucket"), Make("reg_client"), Make("sensor_pg"), Make("flow")>>
         \o (IF b THEN <<Control("ssl"), Control("keytab_svc")>> ELSE <<>>)
         \o <<Control("sr_svc"), Control("json_reader_svc"), Make("pub_kafka"),
         Make("pub_failures"),
            Run({"gen_data", "pub_kafka"})>>, K4, K7, b)
  BY <1>12, <1>7, LeadsTurn
<1>14. Leads("setup", NifiFlowLab(b), K4, K7, b)
  BY <1>13, Zenon DEF NifiFlowLab
<1>15. Leads("setup", EdgeSetup \o NifiSchemaLab, K0, K4, b)
  BY <1>11, <1>4, LeadsTurn
<1>16. Leads("setup", EdgeSetup \o NifiSchemaLab \o NifiFlowLab(b), K0, K7, b)
  BY <1>15, <1>14, LeadsTurn
<1>17. Leads("setup", EdgeSetup \o NifiSchemaLab \o NifiFlowLab(b) \o NifiScoreLab, K0, K8, b)
  BY <1>16, <1>8, LeadsTurn
<1>18. Leads("setup", NifiSetup(b), K0, K8, b)
  BY <1>17, Zenon DEF NifiSetup
<1>19. K0 = {} /\ K8 \subseteq Makes("nifi")
  BY DEF Makes, K0, K1, K2, K3, K4, K5, K6, K7, K8
<1> QED
  BY <1>18, <1>19

\* The teardowns.
LEMMA Groupings ==
  /\ Inside("generators_pg") = {"http_map", "generate", "handle"}
  /\ Inside("fraud_pg") = {"registry", "reader", "lookup", "generators_pg", "score", "publish"}
  /\ Inside("sensor_pg") = {"keytab_svc", "sr_svc", "json_reader_svc",
       "json_reader_with_schema_svc",
                            "rest_lookup_svc", "pub_kafka", "predict", "write_kudu"}
  /\ \A h \in Groups : /\ "generators_pg" \notin Uses(h) /\ "sensor_pg" \notin Uses(h)
                       /\ "fraud_pg" \in Uses(h) => h = "generators_pg"
<1>1. Inside("generators_pg") = {"http_map", "generate", "handle"}
  <2>1. {"http_map", "generate", "handle"} \subseteq Artefacts
    BY DEF Artefacts, Controllers, Processors
  <2> HIDE DEF Artefacts
  <2> QED
    BY <2>1 DEF Inside, Uses
<1>2. Inside("fraud_pg") = {"registry", "reader", "lookup", "generators_pg", "score", "publish"}
  <2>1. {"registry", "reader", "lookup", "generators_pg", "score", "publish"} \subseteq Artefacts
    BY DEF Artefacts, Controllers, Processors, Groups
  <2> HIDE DEF Artefacts
  <2> QED
    BY <2>1 DEF Inside, Uses
<1>3. Inside("sensor_pg") = {"keytab_svc", "sr_svc", "json_reader_svc",
        "json_reader_with_schema_svc",
                             "rest_lookup_svc", "pub_kafka", "predict", "write_kudu"}
  <2>1. {"keytab_svc", "sr_svc", "json_reader_svc", "json_reader_with_schema_svc",
         "rest_lookup_svc", "pub_kafka", "predict", "write_kudu"} \subseteq Artefacts
    BY DEF Artefacts, Controllers, Processors
  <2> HIDE DEF Artefacts
  <2> QED
    BY <2>1 DEF Inside, Uses
<1>4. \A h \in Groups : /\ "generators_pg" \notin Uses(h) /\ "sensor_pg" \notin Uses(h)
                        /\ "fraud_pg" \in Uses(h) => h = "generators_pg"
  <2>1. Uses("sensor_pg") = {} /\ Uses("fraud_pg") = {} /\ Uses("generators_pg") = {"fraud_pg",
          "params"}
    BY DEF Uses
  <2> QED
    BY <2>1 DEF Groups
<1> QED
  BY <1>1, <1>2, <1>3, <1>4

\* Who holds what.
LEMMA Holders ==
  \A x, y : <<y, x>> \in Holds =>
    \/ x = "kafka" /\ y \in {"kudu", "sr"}
    \/ x = "viz_connection" /\ y = "viz_dataset"
    \/ x = "reg_client" /\ y \in {"fraud_pg", "sensor_pg"}
    \/ x \in {"from_gw", "temp_funnel"} /\ y = "gateway"
    \/ x \in EdgeProcessors \cup {"nifi_rpg"} /\ y \in EdgeConnections
BY DEF Holds

LEMMA DownDeleteAll ==
  ASSUME NEW b, NEW K, "disable" \in K
  PROVE  \E G : Leads("teardown", DeleteAll, K, G, b) /\ K
           \cup {"halt", "delete", "ungroup"} \cup Connections \cup {"from_gw"}
           \cup {"temp_funnel"} \cup Processors \cup {"params"} \cup {"generators_pg"}
           \cup Inside("generators_pg") \cup {"fraud_pg"} \cup Inside("fraud_pg")
           \cup {"sensor_pg"} \cup Inside("sensor_pg") \subseteq G
<1> DEFINE K0 == K
           K1 == K0 \cup {"halt"}
           K2 == K1 \cup {"delete"} \cup Connections
           K3 == K2 \cup {"delete"} \cup {"from_gw"}
           K4 == K3 \cup {"delete"} \cup {"temp_funnel"}
           K5 == K4 \cup {"delete"} \cup Processors
           K6 == K5 \cup {"delete"} \cup {"params"}
           K7 == K6 \cup {"ungroup", "generators_pg"} \cup Inside("generators_pg")
           K8 == K7 \cup {"ungroup", "fraud_pg"} \cup Inside("fraud_pg")
           K9 == K8 \cup {"ungroup", "sensor_pg"} \cup Inside("sensor_pg")
<1> HIDE DEF Inside, Holds
<1>1. Step("teardown", Plain("halt"), K0, K1, b)
  BY StepPlain
<1>p2. /\ Connections \subseteq Plains /\ Connections \cap Groups = {} /\ Released(Connections, K1)
  <2>1. Connections \subseteq Plains /\ Connections \cap Groups = {}
    BY DEF Plains, Artefacts, Providers, Tables, Udfs, Groups, Controllers, Processors, Connections,
         EdgeProcessors, EdgeConnections, CdcTables
  <2>2. \A x \in Connections : \A y : <<y, x>> \in Holds
          => y \in K1 \/ (x = "kafka" /\ y \in Connections)
    BY Holders DEF Providers, Tables, Udfs, Connections, Processors, EdgeProcessors,
      EdgeConnections, Inside
  <2>3. Connections \cap Connections # {} => "halt" \in K1
    BY DEF Providers, Tables, Udfs, Connections, Processors, EdgeProcessors, EdgeConnections
  <2> QED
    BY <2>1, <2>2, <2>3 DEF Released
<1>2. Step("teardown", DeleteEach(Connections), K1, K2, b)
  BY <1>p2, StepDelete
<1>p3. /\ {"from_gw"} \subseteq Plains /\ {"from_gw"} \cap Groups = {} /\ Released({"from_gw"}, K2)
  <2>1. {"from_gw"} \subseteq Plains /\ {"from_gw"} \cap Groups = {}
    BY DEF Plains, Artefacts, Providers, Tables, Udfs, Groups, Controllers, Processors, Connections,
         EdgeProcessors, EdgeConnections, CdcTables
  <2>2. \A x \in {"from_gw"} : \A y : <<y, x>> \in Holds
          => y \in K2 \/ (x = "kafka" /\ y \in {"from_gw"})
    BY Holders DEF Providers, Tables, Udfs, Connections, Processors, EdgeProcessors,
      EdgeConnections, Inside
  <2>3. {"from_gw"} \cap Connections # {} => "halt" \in K2
    BY DEF Providers, Tables, Udfs, Connections, Processors, EdgeProcessors, EdgeConnections
  <2> QED
    BY <2>1, <2>2, <2>3 DEF Released
<1>3. Step("teardown", DeleteEach({"from_gw"}), K2, K3, b)
  BY <1>p3, StepDelete
<1>p4. /\ {"temp_funnel"} \subseteq Plains /\ {"temp_funnel"} \cap Groups = {} /\ Released({"temp_funnel"}, K3)
  <2>1. {"temp_funnel"} \subseteq Plains /\ {"temp_funnel"} \cap Groups = {}
    BY DEF Plains, Artefacts, Providers, Tables, Udfs, Groups, Controllers, Processors, Connections,
         EdgeProcessors, EdgeConnections, CdcTables
  <2>2. \A x \in {"temp_funnel"} : \A y : <<y, x>> \in Holds
          => y \in K3 \/ (x = "kafka" /\ y \in {"temp_funnel"})
    BY Holders DEF Providers, Tables, Udfs, Connections, Processors, EdgeProcessors,
      EdgeConnections, Inside
  <2>3. {"temp_funnel"} \cap Connections # {} => "halt" \in K3
    BY DEF Providers, Tables, Udfs, Connections, Processors, EdgeProcessors, EdgeConnections
  <2> QED
    BY <2>1, <2>2, <2>3 DEF Released
<1>4. Step("teardown", DeleteEach({"temp_funnel"}), K3, K4, b)
  BY <1>p4, StepDelete
<1>p5. /\ Processors \subseteq Plains /\ Processors \cap Groups = {} /\ Released(Processors, K4)
  <2>1. Processors \subseteq Plains /\ Processors \cap Groups = {}
    BY DEF Plains, Artefacts, Providers, Tables, Udfs, Groups, Controllers, Processors, Connections,
         EdgeProcessors, EdgeConnections, CdcTables
  <2>2. \A x \in Processors : \A y : <<y, x>> \in Holds
          => y \in K4 \/ (x = "kafka" /\ y \in Processors)
    BY Holders DEF Providers, Tables, Udfs, Connections, Processors, EdgeProcessors,
      EdgeConnections, Inside
  <2>3. Processors \cap Connections # {} => "halt" \in K4
    BY DEF Providers, Tables, Udfs, Connections, Processors, EdgeProcessors, EdgeConnections
  <2> QED
    BY <2>1, <2>2, <2>3 DEF Released
<1>5. Step("teardown", DeleteEach(Processors), K4, K5, b)
  BY <1>p5, StepDelete
<1>p6. /\ {"params"} \subseteq Plains /\ {"params"} \cap Groups = {} /\ Released({"params"}, K5)
  <2>1. {"params"} \subseteq Plains /\ {"params"} \cap Groups = {}
    BY DEF Plains, Artefacts, Providers, Tables, Udfs, Groups, Controllers, Processors, Connections,
         EdgeProcessors, EdgeConnections, CdcTables
  <2>2. \A x \in {"params"} : \A y : <<y, x>> \in Holds
          => y \in K5 \/ (x = "kafka" /\ y \in {"params"})
    BY Holders DEF Providers, Tables, Udfs, Connections, Processors, EdgeProcessors,
      EdgeConnections, Inside
  <2>3. {"params"} \cap Connections # {} => "halt" \in K5
    BY DEF Providers, Tables, Udfs, Connections, Processors, EdgeProcessors, EdgeConnections
  <2> QED
    BY <2>1, <2>2, <2>3 DEF Released
<1>6. Step("teardown", DeleteEach({"params"}), K5, K6, b)
  BY <1>p6, StepDelete
<1>p7. "generators_pg" \in Groups /\ \A h \in Groups : "generators_pg" \in Uses(h)
         => Inside(h) \subseteq K6
  BY Groupings DEF Groups
<1>7. Step("teardown", Statement("ungroup", {"generators_pg"}, 0), K6, K7, b)
  BY <1>p7, StepUngroup
<1>p8. "fraud_pg" \in Groups /\ \A h \in Groups : "fraud_pg" \in Uses(h) => Inside(h) \subseteq K7
  BY Groupings DEF Groups
<1>8. Step("teardown", Statement("ungroup", {"fraud_pg"}, 0), K7, K8, b)
  BY <1>p8, StepUngroup
<1>p9. "sensor_pg" \in Groups /\ \A h \in Groups : "sensor_pg" \in Uses(h) => Inside(h) \subseteq K8
  BY Groupings DEF Groups
<1>9. Step("teardown", Statement("ungroup", {"sensor_pg"}, 0), K8, K9, b)
  BY <1>p9, StepUngroup
<1>10. K9 = K \cup {"halt", "delete", "ungroup"} \cup Connections \cup {"from_gw"}
         \cup {"temp_funnel"} \cup Processors \cup {"params"} \cup {"generators_pg"}
         \cup Inside("generators_pg") \cup {"fraud_pg"} \cup Inside("fraud_pg")
         \cup {"sensor_pg"} \cup Inside("sensor_pg")
  OBVIOUS
<1> HIDE DEF K0, K1, K2, K3, K4, K5, K6, K7, K8, K9
<1>11. Leads("teardown", <<Plain("halt"), DeleteEach(Connections), DeleteEach({"from_gw"}),
         DeleteEach({"temp_funnel"}), DeleteEach(Processors), DeleteEach({"params"}),
         Statement("ungroup", {"generators_pg"}, 0), Statement("ungroup", {"fraud_pg"}, 0),
         Statement("ungroup", {"sensor_pg"}, 0)>>, K0, K9, b)
  BY <1>1, <1>2, <1>3, <1>4, <1>5, <1>6, <1>7, <1>8, <1>9, LeadsNine
<1> QED
  BY <1>10, <1>11 DEF K0, DeleteAll

LEMMA DownRegistered ==
  ASSUME NEW b, NEW K, {"fraud_pg", "sensor_pg"} \subseteq K
  PROVE  \E G : Leads("teardown", DeleteRegistered, K, G, b) /\ K \cup {"delete"}
           \cup {"schema", "schema_avro"} \cup {"reg_client"} \cup {"flow"} \subseteq G
<1> DEFINE K0 == K
           K1 == K0 \cup {"delete"} \cup {"schema", "schema_avro"}
           K2 == K1 \cup {"delete"} \cup {"reg_client"}
           K3 == K2 \cup {"delete"} \cup {"flow"}
<1> HIDE DEF Inside, Holds
<1>p1. /\ {"schema", "schema_avro"} \subseteq Plains /\ {"schema",
            "schema_avro"} \cap Groups = {} /\ Released({"schema", "schema_avro"}, K0)
  <2>1. {"schema", "schema_avro"} \subseteq Plains /\ {"schema", "schema_avro"} \cap Groups = {}
    BY DEF Plains, Artefacts, Providers, Tables, Udfs, Groups, Controllers, Processors, Connections,
         EdgeProcessors, EdgeConnections, CdcTables
  <2>2. \A x \in {"schema", "schema_avro"} : \A y : <<y, x>> \in Holds
          => y \in K0 \/ (x = "kafka" /\ y \in {"schema", "schema_avro"})
    BY Holders DEF Providers, Tables, Udfs, Connections, Processors, EdgeProcessors,
      EdgeConnections, Inside
  <2>3. {"schema", "schema_avro"} \cap Connections # {} => "halt" \in K0
    BY DEF Providers, Tables, Udfs, Connections, Processors, EdgeProcessors, EdgeConnections
  <2> QED
    BY <2>1, <2>2, <2>3 DEF Released
<1>1. Step("teardown", DeleteEach({"schema", "schema_avro"}), K0, K1, b)
  BY <1>p1, StepDelete
<1>p2. /\ {"reg_client"} \subseteq Plains /\ {"reg_client"} \cap Groups = {} /\ Released({"reg_client"}, K1)
  <2>1. {"reg_client"} \subseteq Plains /\ {"reg_client"} \cap Groups = {}
    BY DEF Plains, Artefacts, Providers, Tables, Udfs, Groups, Controllers, Processors, Connections,
         EdgeProcessors, EdgeConnections, CdcTables
  <2>2. \A x \in {"reg_client"} : \A y : <<y, x>> \in Holds
          => y \in K1 \/ (x = "kafka" /\ y \in {"reg_client"})
    BY Holders DEF Providers, Tables, Udfs, Connections, Processors, EdgeProcessors,
      EdgeConnections, Inside
  <2>3. {"reg_client"} \cap Connections # {} => "halt" \in K1
    BY DEF Providers, Tables, Udfs, Connections, Processors, EdgeProcessors, EdgeConnections
  <2> QED
    BY <2>1, <2>2, <2>3 DEF Released
<1>2. Step("teardown", DeleteEach({"reg_client"}), K1, K2, b)
  BY <1>p2, StepDelete
<1>p3. /\ {"flow"} \subseteq Plains /\ {"flow"} \cap Groups = {} /\ Released({"flow"}, K2)
  <2>1. {"flow"} \subseteq Plains /\ {"flow"} \cap Groups = {}
    BY DEF Plains, Artefacts, Providers, Tables, Udfs, Groups, Controllers, Processors, Connections,
         EdgeProcessors, EdgeConnections, CdcTables
  <2>2. \A x \in {"flow"} : \A y : <<y, x>> \in Holds => y \in K2 \/ (x = "kafka" /\ y \in {"flow"})
    BY Holders DEF Providers, Tables, Udfs, Connections, Processors, EdgeProcessors,
      EdgeConnections, Inside
  <2>3. {"flow"} \cap Connections # {} => "halt" \in K2
    BY DEF Providers, Tables, Udfs, Connections, Processors, EdgeProcessors, EdgeConnections
  <2> QED
    BY <2>1, <2>2, <2>3 DEF Released
<1>3. Step("teardown", DeleteEach({"flow"}), K2, K3, b)
  BY <1>p3, StepDelete
<1>4. K3 = K \cup {"delete"} \cup {"schema", "schema_avro"} \cup {"reg_client"} \cup {"flow"}
  OBVIOUS
<1> HIDE DEF K0, K1, K2, K3
<1>5. Leads("teardown", <<DeleteEach({"schema", "schema_avro"}), DeleteEach({"reg_client"}),
        DeleteEach({"flow"})>>, K0, K3, b)
  BY <1>1, <1>2, <1>3, LeadsThree
<1> QED
  BY <1>4, <1>5 DEF K0, DeleteRegistered

LEMMA DownEdgeFlow ==
  ASSUME NEW b, NEW K
  PROVE  \E G : Leads("teardown", DeleteEdgeFlow, K, G, b) /\ K \cup {"delete"}
           \cup EdgeConnections \cup {"nifi_rpg"} \cup EdgeProcessors \subseteq G
<1> DEFINE K0 == K
           K1 == K0 \cup {"delete"} \cup EdgeConnections
           K2 == K1 \cup {"delete"} \cup {"nifi_rpg"}
           K3 == K2 \cup {"delete"} \cup EdgeProcessors
<1> HIDE DEF Inside, Holds
<1>p1. /\ EdgeConnections \subseteq Plains /\ EdgeConnections \cap Groups = {} /\ Released(EdgeConnections, K0)
  <2>1. EdgeConnections \subseteq Plains /\ EdgeConnections \cap Groups = {}
    BY DEF Plains, Artefacts, Providers, Tables, Udfs, Groups, Controllers, Processors, Connections,
         EdgeProcessors, EdgeConnections, CdcTables
  <2>2. \A x \in EdgeConnections : \A y : <<y, x>> \in Holds
          => y \in K0 \/ (x = "kafka" /\ y \in EdgeConnections)
    BY Holders DEF Providers, Tables, Udfs, Connections, Processors, EdgeProcessors,
      EdgeConnections, Inside
  <2>3. EdgeConnections \cap Connections # {} => "halt" \in K0
    BY DEF Providers, Tables, Udfs, Connections, Processors, EdgeProcessors, EdgeConnections
  <2> QED
    BY <2>1, <2>2, <2>3 DEF Released
<1>1. Step("teardown", DeleteEach(EdgeConnections), K0, K1, b)
  BY <1>p1, StepDelete
<1>p2. /\ {"nifi_rpg"} \subseteq Plains /\ {"nifi_rpg"} \cap Groups = {} /\ Released({"nifi_rpg"}, K1)
  <2>1. {"nifi_rpg"} \subseteq Plains /\ {"nifi_rpg"} \cap Groups = {}
    BY DEF Plains, Artefacts, Providers, Tables, Udfs, Groups, Controllers, Processors, Connections,
         EdgeProcessors, EdgeConnections, CdcTables
  <2>2. \A x \in {"nifi_rpg"} : \A y : <<y, x>> \in Holds
          => y \in K1 \/ (x = "kafka" /\ y \in {"nifi_rpg"})
    BY Holders DEF Providers, Tables, Udfs, Connections, Processors, EdgeProcessors,
      EdgeConnections, Inside
  <2>3. {"nifi_rpg"} \cap Connections # {} => "halt" \in K1
    BY DEF Providers, Tables, Udfs, Connections, Processors, EdgeProcessors, EdgeConnections
  <2> QED
    BY <2>1, <2>2, <2>3 DEF Released
<1>2. Step("teardown", DeleteEach({"nifi_rpg"}), K1, K2, b)
  BY <1>p2, StepDelete
<1>p3. /\ EdgeProcessors \subseteq Plains /\ EdgeProcessors \cap Groups = {} /\ Released(EdgeProcessors, K2)
  <2>1. EdgeProcessors \subseteq Plains /\ EdgeProcessors \cap Groups = {}
    BY DEF Plains, Artefacts, Providers, Tables, Udfs, Groups, Controllers, Processors, Connections,
         EdgeProcessors, EdgeConnections, CdcTables
  <2>2. \A x \in EdgeProcessors : \A y : <<y, x>> \in Holds
          => y \in K2 \/ (x = "kafka" /\ y \in EdgeProcessors)
    BY Holders DEF Providers, Tables, Udfs, Connections, Processors, EdgeProcessors,
      EdgeConnections, Inside
  <2>3. EdgeProcessors \cap Connections # {} => "halt" \in K2
    BY DEF Providers, Tables, Udfs, Connections, Processors, EdgeProcessors, EdgeConnections
  <2> QED
    BY <2>1, <2>2, <2>3 DEF Released
<1>3. Step("teardown", DeleteEach(EdgeProcessors), K2, K3, b)
  BY <1>p3, StepDelete
<1>4. K3 = K \cup {"delete"} \cup EdgeConnections \cup {"nifi_rpg"} \cup EdgeProcessors
  OBVIOUS
<1> HIDE DEF K0, K1, K2, K3
<1>5. Leads("teardown", <<DeleteEach(EdgeConnections), DeleteEach({"nifi_rpg"}),
        DeleteEach(EdgeProcessors)>>, K0, K3, b)
  BY <1>1, <1>2, <1>3, LeadsThree
<1> QED
  BY <1>4, <1>5 DEF K0, DeleteEdgeFlow

LEMMA DownQuiet ==
  ASSUME NEW b, NEW K
  PROVE  \E G : Leads("teardown", <<Plain("halt"), Plain("disable")>>, K, G, b) /\ K
           \cup {"halt", "disable"} \subseteq G
<1> DEFINE K0 == K
           K1 == K0 \cup {"halt"}
           K2 == K1 \cup {"disable"}
<1> HIDE DEF Inside, Holds
<1>1. Step("teardown", Plain("halt"), K0, K1, b)
  BY StepPlain
<1>2. Step("teardown", Plain("disable"), K1, K2, b)
  BY StepPlain
<1>3. K2 = K \cup {"halt", "disable"}
  OBVIOUS
<1> HIDE DEF K0, K1, K2
<1>4. Leads("teardown", <<Plain("halt"), Plain("disable")>>, K0, K2, b)
  BY <1>1, <1>2, LeadsTwo
<1> QED
  BY <1>3, <1>4 DEF K0

\* What fraud's teardown does before nf.delete_all.
FraudFirst == <<DeleteEach({"viz_dataset"}), DeleteEach({"viz_connection"}), Plain("halt"),
  Plain("disable"),
                Statement("stop_all", {}, 3), Drop({"fraud_tables"}), Plain("delete_jobs"),
                DeleteEach(Udfs), DeleteEach(Providers)>>

LEMMA DownFraud ==
  ASSUME NEW b, NEW K
  PROVE  \E G : Leads("teardown", FraudFirst, K, G, b) /\ K
           \cup {"delete", "halt", "disable", "stop_all", "drop", "delete_jobs"}
           \cup {"viz_dataset"} \cup {"viz_connection"} \cup {"fraud_tables"} \cup Udfs
           \cup Providers \subseteq G
<1> DEFINE K0 == K
           K1 == K0 \cup {"delete"} \cup {"viz_dataset"}
           K2 == K1 \cup {"delete"} \cup {"viz_connection"}
           K3 == K2 \cup {"halt"}
           K4 == K3 \cup {"disable"}
           K5 == K4 \cup {"stop_all"}
           K6 == K5 \cup {"drop"} \cup {"fraud_tables"}
           K7 == K6 \cup {"delete_jobs"}
           K8 == K7 \cup {"delete"} \cup Udfs
           K9 == K8 \cup {"delete"} \cup Providers
<1> HIDE DEF Inside, Holds
<1>p1. /\ {"viz_dataset"} \subseteq Plains /\ {"viz_dataset"} \cap Groups = {} /\ Released({"viz_dataset"}, K0)
  <2>1. {"viz_dataset"} \subseteq Plains /\ {"viz_dataset"} \cap Groups = {}
    BY DEF Plains, Artefacts, Providers, Tables, Udfs, Groups, Controllers, Processors, Connections,
         EdgeProcessors, EdgeConnections, CdcTables
  <2>2. \A x \in {"viz_dataset"} : \A y : <<y, x>> \in Holds
          => y \in K0 \/ (x = "kafka" /\ y \in {"viz_dataset"})
    BY Holders DEF Providers, Tables, Udfs, Connections, Processors, EdgeProcessors,
      EdgeConnections, Inside
  <2>3. {"viz_dataset"} \cap Connections # {} => "halt" \in K0
    BY DEF Providers, Tables, Udfs, Connections, Processors, EdgeProcessors, EdgeConnections
  <2> QED
    BY <2>1, <2>2, <2>3 DEF Released
<1>1. Step("teardown", DeleteEach({"viz_dataset"}), K0, K1, b)
  BY <1>p1, StepDelete
<1>p2. /\ {"viz_connection"} \subseteq Plains /\ {"viz_connection"} \cap Groups = {} /\ Released({"viz_connection"}, K1)
  <2>1. {"viz_connection"} \subseteq Plains /\ {"viz_connection"} \cap Groups = {}
    BY DEF Plains, Artefacts, Providers, Tables, Udfs, Groups, Controllers, Processors, Connections,
         EdgeProcessors, EdgeConnections, CdcTables
  <2>2. \A x \in {"viz_connection"} : \A y : <<y, x>> \in Holds
          => y \in K1 \/ (x = "kafka" /\ y \in {"viz_connection"})
    BY Holders DEF Providers, Tables, Udfs, Connections, Processors, EdgeProcessors,
      EdgeConnections, Inside
  <2>3. {"viz_connection"} \cap Connections # {} => "halt" \in K1
    BY DEF Providers, Tables, Udfs, Connections, Processors, EdgeProcessors, EdgeConnections
  <2> QED
    BY <2>1, <2>2, <2>3 DEF Released
<1>2. Step("teardown", DeleteEach({"viz_connection"}), K1, K2, b)
  BY <1>p2, StepDelete
<1>3. Step("teardown", Plain("halt"), K2, K3, b)
  BY StepPlain
<1>4. Step("teardown", Plain("disable"), K3, K4, b)
  BY StepPlain
<1>5. Step("teardown", Statement("stop_all", {}, 3), K4, K5, b)
  BY StepStopAll
<1>p6. /\ {"fraud_tables"} \subseteq Plains /\ {"fraud_tables"} \cap Groups = {}
  <2>1. {"fraud_tables"} \subseteq Plains /\ {"fraud_tables"} \cap Groups = {}
    BY DEF Plains, Artefacts, Providers, Tables, Udfs, Groups, Controllers, Processors, Connections,
         EdgeProcessors, EdgeConnections, CdcTables
  <2> QED
    BY <2>1
<1>6. Step("teardown", Drop({"fraud_tables"}), K5, K6, b)
  BY <1>p6, StepDrop
<1>7. Step("teardown", Plain("delete_jobs"), K6, K7, b)
  BY StepPlain
<1>p8. /\ Udfs \subseteq Plains /\ Udfs \cap Groups = {} /\ Released(Udfs, K7)
  <2>1. Udfs \subseteq Plains /\ Udfs \cap Groups = {}
    BY DEF Plains, Artefacts, Providers, Tables, Udfs, Groups, Controllers, Processors, Connections,
         EdgeProcessors, EdgeConnections, CdcTables
  <2>2. \A x \in Udfs : \A y : <<y, x>> \in Holds => y \in K7 \/ (x = "kafka" /\ y \in Udfs)
    BY Holders DEF Providers, Tables, Udfs, Connections, Processors, EdgeProcessors,
      EdgeConnections, Inside
  <2>3. Udfs \cap Connections # {} => "halt" \in K7
    BY DEF Providers, Tables, Udfs, Connections, Processors, EdgeProcessors, EdgeConnections
  <2> QED
    BY <2>1, <2>2, <2>3 DEF Released
<1>8. Step("teardown", DeleteEach(Udfs), K7, K8, b)
  BY <1>p8, StepDelete
<1>p9. /\ Providers \subseteq Plains /\ Providers \cap Groups = {} /\ Released(Providers, K8)
  <2>1. Providers \subseteq Plains /\ Providers \cap Groups = {}
    BY DEF Plains, Artefacts, Providers, Tables, Udfs, Groups, Controllers, Processors, Connections,
         EdgeProcessors, EdgeConnections, CdcTables
  <2>2. \A x \in Providers : \A y : <<y, x>> \in Holds
          => y \in K8 \/ (x = "kafka" /\ y \in Providers)
    BY Holders DEF Providers, Tables, Udfs, Connections, Processors, EdgeProcessors,
      EdgeConnections, Inside
  <2>3. Providers \cap Connections # {} => "halt" \in K8
    BY DEF Providers, Tables, Udfs, Connections, Processors, EdgeProcessors, EdgeConnections
  <2> QED
    BY <2>1, <2>2, <2>3 DEF Released
<1>9. Step("teardown", DeleteEach(Providers), K8, K9, b)
  BY <1>p9, StepDelete
<1>10. K9 = K \cup {"delete", "halt", "disable", "stop_all", "drop", "delete_jobs"}
         \cup {"viz_dataset"} \cup {"viz_connection"} \cup {"fraud_tables"} \cup Udfs \cup Providers
  OBVIOUS
<1> HIDE DEF K0, K1, K2, K3, K4, K5, K6, K7, K8, K9
<1>11. Leads("teardown", <<DeleteEach({"viz_dataset"}), DeleteEach({"viz_connection"}),
         Plain("halt"), Plain("disable"), Statement("stop_all", {}, 3), Drop({"fraud_tables"}),
         Plain("delete_jobs"), DeleteEach(Udfs), DeleteEach(Providers)>>, K0, K9, b)
  BY <1>1, <1>2, <1>3, <1>4, <1>5, <1>6, <1>7, <1>8, <1>9, LeadsNine
<1> QED
  BY <1>10, <1>11 DEF K0, FraudFirst

LEMMA DownSsb ==
  ASSUME NEW b, NEW K, "kudu" \in K
  PROVE  \E G : Leads("teardown", SsbTeardown, K, G, b) /\ K \cup {"delete", "try"}
           \cup {"sr"} \cup {"schema_avro"} \cup {"iot_enriched"} \cup {"kafka"} \subseteq G
<1> DEFINE K0 == K
           K1 == K0 \cup {"delete"} \cup {"sr"}
           K2 == K1 \cup {"try"} \cup {"schema_avro"}
           K3 == K2 \cup {"delete"} \cup {"iot_enriched"}
           K4 == K3 \cup {"delete"} \cup {"kafka"}
<1> HIDE DEF Inside, Holds
<1>p1. /\ {"sr"} \subseteq Plains /\ {"sr"} \cap Groups = {} /\ Released({"sr"}, K0)
  <2>1. {"sr"} \subseteq Plains /\ {"sr"} \cap Groups = {}
    BY DEF Plains, Artefacts, Providers, Tables, Udfs, Groups, Controllers, Processors, Connections,
         EdgeProcessors, EdgeConnections, CdcTables
  <2>2. \A x \in {"sr"} : \A y : <<y, x>> \in Holds => y \in K0 \/ (x = "kafka" /\ y \in {"sr"})
    BY Holders DEF Providers, Tables, Udfs, Connections, Processors, EdgeProcessors,
      EdgeConnections, Inside
  <2>3. {"sr"} \cap Connections # {} => "halt" \in K0
    BY DEF Providers, Tables, Udfs, Connections, Processors, EdgeProcessors, EdgeConnections
  <2> QED
    BY <2>1, <2>2, <2>3 DEF Released
<1>1. Step("teardown", DeleteEach({"sr"}), K0, K1, b)
  BY <1>p1, StepDelete
<1>2. Step("teardown", Try({"schema_avro"}), K1, K2, b)
  BY StepTry
<1>p3. /\ {"iot_enriched"} \subseteq Plains /\ {"iot_enriched"} \cap Groups = {} /\ Released({"iot_enriched"}, K2)
  <2>1. {"iot_enriched"} \subseteq Plains /\ {"iot_enriched"} \cap Groups = {}
    BY DEF Plains, Artefacts, Providers, Tables, Udfs, Groups, Controllers, Processors, Connections,
         EdgeProcessors, EdgeConnections, CdcTables
  <2>2. \A x \in {"iot_enriched"} : \A y : <<y, x>> \in Holds
          => y \in K2 \/ (x = "kafka" /\ y \in {"iot_enriched"})
    BY Holders DEF Providers, Tables, Udfs, Connections, Processors, EdgeProcessors,
      EdgeConnections, Inside
  <2>3. {"iot_enriched"} \cap Connections # {} => "halt" \in K2
    BY DEF Providers, Tables, Udfs, Connections, Processors, EdgeProcessors, EdgeConnections
  <2> QED
    BY <2>1, <2>2, <2>3 DEF Released
<1>3. Step("teardown", DeleteEach({"iot_enriched"}), K2, K3, b)
  BY <1>p3, StepDelete
<1>p4. /\ {"kafka"} \subseteq Plains /\ {"kafka"} \cap Groups = {} /\ Released({"kafka"}, K3)
  <2>1. {"kafka"} \subseteq Plains /\ {"kafka"} \cap Groups = {}
    BY DEF Plains, Artefacts, Providers, Tables, Udfs, Groups, Controllers, Processors, Connections,
         EdgeProcessors, EdgeConnections, CdcTables
  <2>2. \A x \in {"kafka"} : \A y : <<y, x>> \in Holds
          => y \in K3 \/ (x = "kafka" /\ y \in {"kafka"})
    BY Holders DEF Providers, Tables, Udfs, Connections, Processors, EdgeProcessors,
      EdgeConnections, Inside
  <2>3. {"kafka"} \cap Connections # {} => "halt" \in K3
    BY DEF Providers, Tables, Udfs, Connections, Processors, EdgeProcessors, EdgeConnections
  <2> QED
    BY <2>1, <2>2, <2>3 DEF Released
<1>4. Step("teardown", DeleteEach({"kafka"}), K3, K4, b)
  BY <1>p4, StepDelete
<1>5. K4 = K \cup {"delete", "try"} \cup {"sr"} \cup {"schema_avro"} \cup {"iot_enriched"}
        \cup {"kafka"}
  OBVIOUS
<1> HIDE DEF K0, K1, K2, K3, K4
<1>6. Leads("teardown", <<DeleteEach({"sr"}), Try({"schema_avro"}),
        DeleteEach({"iot_enriched"}), DeleteEach({"kafka"})>>, K0, K4, b)
  BY <1>1, <1>2, <1>3, <1>4, LeadsFour
<1> QED
  BY <1>5, <1>6 DEF K0, SsbTeardown

LEMMA DownCdc ==
  ASSUME NEW b, NEW K
  PROVE  \E G : Leads("teardown", CdcTeardown, K, G, b) /\ K \cup {"stop_all", "drop"}
           \cup CdcTables \subseteq G
<1> DEFINE K0 == K
           K1 == K0 \cup {"stop_all"}
           K2 == K1 \cup {"drop"} \cup CdcTables
<1> HIDE DEF Inside, Holds
<1>1. Step("teardown", Statement("stop_all", {}, 0), K0, K1, b)
  BY StepStopAll
<1>p2. /\ CdcTables \subseteq Plains /\ CdcTables \cap Groups = {}
  <2>1. CdcTables \subseteq Plains /\ CdcTables \cap Groups = {}
    BY DEF Plains, Artefacts, Providers, Tables, Udfs, Groups, Controllers, Processors, Connections,
         EdgeProcessors, EdgeConnections, CdcTables
  <2> QED
    BY <2>1
<1>2. Step("teardown", Drop(CdcTables), K1, K2, b)
  BY <1>p2, StepDrop
<1>3. K2 = K \cup {"stop_all", "drop"} \cup CdcTables
  OBVIOUS
<1> HIDE DEF K0, K1, K2
<1>4. Leads("teardown", <<Statement("stop_all", {}, 0), Drop(CdcTables)>>, K0, K2, b)
  BY <1>1, <1>2, LeadsTwo
<1> QED
  BY <1>3, <1>4 DEF K0, CdcTeardown

LEMMA DownDataviz ==
  ASSUME NEW b, NEW K
  PROVE  \E G : Leads("teardown", DatavizTeardown, K, G, b) /\ K \cup {"delete"}
           \cup {"viz_dataset"} \cup {"viz_connection"} \subseteq G
<1> DEFINE K0 == K
           K1 == K0 \cup {"delete"} \cup {"viz_dataset"}
           K2 == K1 \cup {"delete"} \cup {"viz_connection"}
<1> HIDE DEF Inside, Holds
<1>p1. /\ {"viz_dataset"} \subseteq Plains /\ {"viz_dataset"} \cap Groups = {} /\ Released({"viz_dataset"}, K0)
  <2>1. {"viz_dataset"} \subseteq Plains /\ {"viz_dataset"} \cap Groups = {}
    BY DEF Plains, Artefacts, Providers, Tables, Udfs, Groups, Controllers, Processors, Connections,
         EdgeProcessors, EdgeConnections, CdcTables
  <2>2. \A x \in {"viz_dataset"} : \A y : <<y, x>> \in Holds
          => y \in K0 \/ (x = "kafka" /\ y \in {"viz_dataset"})
    BY Holders DEF Providers, Tables, Udfs, Connections, Processors, EdgeProcessors,
      EdgeConnections, Inside
  <2>3. {"viz_dataset"} \cap Connections # {} => "halt" \in K0
    BY DEF Providers, Tables, Udfs, Connections, Processors, EdgeProcessors, EdgeConnections
  <2> QED
    BY <2>1, <2>2, <2>3 DEF Released
<1>1. Step("teardown", DeleteEach({"viz_dataset"}), K0, K1, b)
  BY <1>p1, StepDelete
<1>p2. /\ {"viz_connection"} \subseteq Plains /\ {"viz_connection"} \cap Groups = {} /\ Released({"viz_connection"}, K1)
  <2>1. {"viz_connection"} \subseteq Plains /\ {"viz_connection"} \cap Groups = {}
    BY DEF Plains, Artefacts, Providers, Tables, Udfs, Groups, Controllers, Processors, Connections,
         EdgeProcessors, EdgeConnections, CdcTables
  <2>2. \A x \in {"viz_connection"} : \A y : <<y, x>> \in Holds
          => y \in K1 \/ (x = "kafka" /\ y \in {"viz_connection"})
    BY Holders DEF Providers, Tables, Udfs, Connections, Processors, EdgeProcessors,
      EdgeConnections, Inside
  <2>3. {"viz_connection"} \cap Connections # {} => "halt" \in K1
    BY DEF Providers, Tables, Udfs, Connections, Processors, EdgeProcessors, EdgeConnections
  <2> QED
    BY <2>1, <2>2, <2>3 DEF Released
<1>2. Step("teardown", DeleteEach({"viz_connection"}), K1, K2, b)
  BY <1>p2, StepDelete
<1>3. K2 = K \cup {"delete"} \cup {"viz_dataset"} \cup {"viz_connection"}
  OBVIOUS
<1> HIDE DEF K0, K1, K2
<1>4. Leads("teardown", <<DeleteEach({"viz_dataset"}), DeleteEach({"viz_connection"})>>, K0, K2, b)
  BY <1>1, <1>2, LeadsTwo
<1> QED
  BY <1>3, <1>4 DEF K0, DatavizTeardown

LEMMA DownEdge ==
  ASSUME NEW b, NEW K
  PROVE  \E G : /\ Leads("teardown", EdgeTeardown, K, G, b)
                /\ K \cup {"halt", "disable"} \cup Connections
                     \cup {"from_gw", "temp_funnel", "params"}
                   \cup Processors \cup {"generators_pg", "fraud_pg", "sensor_pg"}
                     \cup Inside("generators_pg")
                   \cup Inside("fraud_pg") \cup Inside("sensor_pg") \cup EdgeConnections
                     \cup {"nifi_rpg"}
                   \cup EdgeProcessors
                     \cup {"schema", "schema_avro", "reg_client", "flow"} \subseteq G
<1>1. PICK K1 : /\ Leads("teardown", <<Plain("halt"), Plain("disable")>>, K, K1, b)
                /\ K \cup {"halt", "disable"} \subseteq K1
  BY DownQuiet
<1>2. PICK K2 : /\ Leads("teardown", DeleteAll, K1, K2, b)
                /\ K1 \cup {"halt", "delete", "ungroup"} \cup Connections \cup {"from_gw"}
                     \cup {"temp_funnel"} \cup Processors \cup {"params"}
                     \cup {"generators_pg"} \cup Inside("generators_pg") \cup {"fraud_pg"}
                     \cup Inside("fraud_pg") \cup {"sensor_pg"}
                     \cup Inside("sensor_pg") \subseteq K2
  BY <1>1, DownDeleteAll
<1>3. PICK K3 : /\ Leads("teardown", DeleteEdgeFlow, K2, K3, b)
                /\ K2 \cup {"delete"} \cup EdgeConnections \cup {"nifi_rpg"}
                     \cup EdgeProcessors \subseteq K3
  BY DownEdgeFlow
<1>4. PICK K4 : /\ Leads("teardown", DeleteRegistered, K3, K4, b)
                /\ K3 \cup {"delete"} \cup {"schema", "schema_avro"} \cup {"reg_client"}
                     \cup {"flow"} \subseteq K4
  BY <1>2, <1>3, DownRegistered
<1>5. Leads("teardown", <<Plain("halt"), Plain("disable")>> \o DeleteAll, K, K2, b)
  BY <1>1, <1>2, LeadsTurn
<1>6. Leads("teardown", <<Plain("halt"), Plain("disable")>> \o DeleteAll \o DeleteEdgeFlow, K,
        K3, b)
  BY <1>3, <1>5, LeadsTurn
<1>7. Leads("teardown", <<Plain("halt"), Plain("disable")>> \o DeleteAll \o DeleteEdgeFlow
                        \o DeleteRegistered, K, K4, b)
  BY <1>4, <1>6, LeadsTurn
<1>8. Leads("teardown", EdgeTeardown, K, K4, b)
  BY <1>7, Zenon DEF EdgeTeardown
<1> QED
  BY <1>1, <1>2, <1>3, <1>4, <1>8

LEMMA SsbServes == ASSUME NEW b PROVE SetupServes("ssb", b) /\ TeardownServes("ssb", b)
<1>1. SetupServes("ssb", b)
  BY SsbUp DEF SetupServes, SetupOf, Makes
<1>2. "kudu" \in Absent("ssb")
  BY DEF Absent, Artefacts, Providers, Makes, Residue
<1>3. TeardownServes("ssb", b)
  <2>1. PICK G : /\ Leads("teardown", SsbTeardown, Absent("ssb"), G, b)
                 /\ Absent("ssb") \cup {"delete", "try"} \cup {"sr"} \cup {"schema_avro"}
                      \cup {"iot_enriched"} \cup {"kafka"} \subseteq G
    BY <1>2, DownSsb
  <2>2. Clears("ssb", G)
    BY <2>1 DEF Clears, Makes, Processors, JobNames
  <2> QED
    BY <2>1, <2>2 DEF TeardownServes, TeardownOf
<1> QED
  BY <1>1, <1>3

LEMMA CdcServes == ASSUME NEW b PROVE SetupServes("cdc", b) /\ TeardownServes("cdc", b)
<1>1. SetupServes("cdc", b)
  <2>1. {"transactions_cdc", "lab3", "trans_replica", "lab4", "trans_changelog",
          "lab5"} \subseteq Makes("cdc")
    BY DEF Makes, CdcTables, SlotJobs
  <2> QED
    BY <2>1, CdcUp DEF SetupServes, SetupOf
<1>2. TeardownServes("cdc", b)
  <2>1. PICK G : Leads("teardown", CdcTeardown, Absent("cdc"), G, b) /\ Absent("cdc")
          \cup {"stop_all", "drop"} \cup CdcTables \subseteq G
    BY DownCdc
  <2>2. Makes("cdc") \cap Artefacts \subseteq CdcTables /\ Makes("cdc") \cap Processors = {}
    BY DEF Makes, Artefacts, SlotJobs, CdcTables, Providers, Tables, Udfs, Groups, Controllers,
      Processors,
           Connections, EdgeProcessors, EdgeConnections
  <2>3. Clears("cdc", G)
    BY <2>1, <2>2 DEF Clears
  <2> QED
    BY <2>1, <2>3 DEF TeardownServes, TeardownOf
<1> QED
  BY <1>1, <1>2

LEMMA DatavizServes == ASSUME NEW b PROVE SetupServes("dataviz", b) /\ TeardownServes("dataviz", b)
<1>1. SetupServes("dataviz", b)
  <2>1. PICK L : Leads("setup", DatavizSetup, {}, L, b) /\ L = {}
          \cup {"viz_connection", "viz_dataset"}
    BY LabDatavizSetup
  <2> QED
    BY <2>1 DEF SetupServes, SetupOf, Makes
<1>2. TeardownServes("dataviz", b)
  <2>1. PICK G : Leads("teardown", DatavizTeardown, Absent("dataviz"), G,
          b) /\ Absent("dataviz") \cup {"delete"} \cup {"viz_dataset"}
          \cup {"viz_connection"} \subseteq G
    BY DownDataviz
  <2>2. Clears("dataviz", G)
    BY <2>1 DEF Clears, Makes, Processors, JobNames
  <2> QED
    BY <2>1, <2>2 DEF TeardownServes, TeardownOf
<1> QED
  BY <1>1, <1>2

LEMMA FraudServes == ASSUME NEW b PROVE SetupServes("fraud", b) /\ TeardownServes("fraud", b)
<1>1. SetupServes("fraud", b)
  <2>1. PICK L : Leads("setup", FraudSetup(b), {}, L, b) /\ L \subseteq Makes("fraud")
    BY FraudUp
  <2> QED
    BY <2>1 DEF SetupServes, SetupOf
<1>2. TeardownServes("fraud", b)
  <2> DEFINE K == Absent("fraud")
  <2>1. PICK K1 : /\ Leads("teardown", FraudFirst, K, K1, b)
                  /\ K \cup {"delete", "halt", "disable", "stop_all", "drop", "delete_jobs"}
                       \cup {"viz_dataset"} \cup {"viz_connection"} \cup {"fraud_tables"}
                       \cup Udfs \cup Providers \subseteq K1
    BY DownFraud
  <2>2. PICK K2 : /\ Leads("teardown", DeleteAll, K1, K2, b)
                  /\ K1 \cup {"halt", "delete", "ungroup"} \cup Connections \cup {"from_gw"}
                       \cup {"temp_funnel"} \cup Processors \cup {"params"}
                       \cup {"generators_pg"} \cup Inside("generators_pg") \cup {"fraud_pg"}
                       \cup Inside("fraud_pg") \cup {"sensor_pg"}
                       \cup Inside("sensor_pg") \subseteq K2
    BY <2>1, DownDeleteAll
  <2>3. PICK K3 : /\ Leads("teardown", DeleteRegistered, K2, K3, b)
                  /\ K2 \cup {"delete"} \cup {"schema", "schema_avro"} \cup {"reg_client"}
                       \cup {"flow"} \subseteq K3
    BY <2>2, DownRegistered
  <2> HIDE DEF K
  <2>4. Leads("teardown", FraudFirst \o DeleteAll, K, K2, b)
    BY <2>1, <2>2, LeadsTurn
  <2>5. Leads("teardown", FraudFirst \o DeleteAll \o DeleteRegistered, K, K3, b)
    BY <2>3, <2>4, LeadsTurn
  <2>6. Leads("teardown", FraudTeardown, K, K3, b)
    BY <2>5, Zenon DEF FraudTeardown, FraudFirst
  <2>7. Makes("fraud") \cap Artefacts \subseteq K3 \cup Residue
    <3>1. "fraud_detection_job" \notin Artefacts
      BY DEF Artefacts, Providers, Tables, Udfs, Groups, Controllers, Processors, Connections,
             EdgeProcessors, EdgeConnections
    <3> HIDE DEF Artefacts
    <3> QED
      BY <2>1, <2>2, <2>3, <3>1, Groupings DEF Makes, Residue, Udfs, Providers, Connections,
        Processors
  <2>8. {"halt", "stop_all", "delete_jobs"} \subseteq K3
    BY <2>1, <2>2, <2>3
  <2> QED
    BY <2>6, <2>7, <2>8 DEF TeardownServes, TeardownOf, K, Clears
<1> QED
  BY <1>1, <1>2

LEMMA NifiServes == ASSUME NEW b PROVE SetupServes("nifi", b) /\ TeardownServes("nifi", b)
<1>1. SetupServes("nifi", b)
  <2>1. PICK L : Leads("setup", NifiSetup(b), {}, L, b) /\ L \subseteq Makes("nifi")
    BY NifiUp
  <2> QED
    BY <2>1 DEF SetupServes, SetupOf
<1>2. TeardownServes("nifi", b)
  <2> DEFINE K == Absent("nifi")
             All == {"halt", "disable"} \cup Connections \cup {"from_gw", "temp_funnel", "params"}
                    \cup Processors \cup {"generators_pg", "fraud_pg", "sensor_pg"}
                      \cup Inside("generators_pg")
                    \cup Inside("fraud_pg") \cup Inside("sensor_pg") \cup EdgeConnections
                      \cup {"nifi_rpg"}
                    \cup EdgeProcessors \cup {"schema", "schema_avro", "reg_client", "flow"}
  <2>1. PICK K1 : Leads("teardown", EdgeTeardown, K, K1, b) /\ All \subseteq K1
    BY DownEdge
  <2>2. PICK K2 : Leads("teardown", EdgeTeardown, K1, K2, b) /\ K1 \subseteq K2
    BY DownEdge
  <2>3. Leads("teardown", EdgeTeardown \o EdgeTeardown, K, K2, b)
    BY <2>1, <2>2, LeadsTurn
  <2>4. Leads("teardown", NifiTeardown, K, K2, b)
    BY <2>3, Zenon DEF NifiTeardown
  <2>5. Clears("nifi", K2)
    BY <2>1, <2>2, Groupings DEF Clears, Makes, Residue, Connections, Processors, EdgeConnections,
                                 EdgeProcessors, JobNames
  <2> QED
    BY <2>4, <2>5 DEF TeardownServes, TeardownOf
<1> QED
  BY <1>1, <1>2

LEMMA LabsServe ==
  ASSUME KnownWorkshops, NEW w \in WorkshopIds, NEW b
  PROVE  SetupServes(w, b) /\ TeardownServes(w, b)
<1>1. w \in {"ssb", "cdc", "fraud", "nifi", "dataviz"}
  BY DEF KnownWorkshops
<1> QED
  BY <1>1, SsbServes, CdcServes, FraudServes, NifiServes, DatavizServes
-----------------------------------------------------------------------------
(* The invariant of set-ups and teardowns: after n statements of a set-up   *)
(* what they make is there; after n statements of a teardown what they      *)
(* remove is not.                                                           *)

\* The effects of the statements that the process has behind it.
Past == Before(phase, Script, pc)

\* Only what the workshop makes is ever there, and nothing outside its group.
Bounded ==
  /\ there \subseteq Makes(workshop) \cup Residue /\ live \subseteq Makes(workshop)
  /\ \A j \in JobNames : jobs[j] # "none" => j \in Makes(workshop)

Inhabited == \A x \in there, g \in Groups : g \in Uses(x) => g \in there

Built ==
  /\ there \subseteq Residue \cup Past /\ Still(Past) \ JobNames \subseteq there
  /\ live \subseteq there
  /\ \A j \in JobNames \cap Past : jobs[j] # "none"

Cleared ==
  /\ there \cap Past = {}
  /\ "halt" \in Past => live = {}
  /\ "disable" \in Past /\ ~hurt => enabled = {}
  /\ "stop_all" \in Past => \A j \in JobNames : ~Active(j)
  /\ "delete_jobs" \in Past => \A j \in JobNames : jobs[j] = "none"

\* What a loop has not visited yet.
LoopKnows(c) ==
  /\ c.op = "delete" /\ step = "call" => c.arg \cap there \subseteq todo
  /\ c.op = "disable" /\ step = "call" /\ ~failed /\ ~hurt => enabled \subseteq todo
  /\ c.op = "stop_all" /\ step # "list" => \A j \in JobNames : Active(j) => j \in todo
  /\ c.op = "delete_jobs" /\ step # "list" => \A j \in JobNames : jobs[j] # "none" => j \in todo
  /\ c.op \in {"stop_all", "delete_jobs"} /\ step = "sleep" => ~Active(target)
  /\ c.op = "start" => step = "list"

RaisedHurt == status = "raised" => hurt

LabsInv ==
  /\ Bounded /\ Inhabited
  /\ phase = "setup" /\ status # "raised" => Built
  /\ phase = "teardown" /\ status # "raised" => Cleared
  /\ Running => LoopKnows(Script[pc])
  /\ status = "done" => pc = Len(Script) + 1
  /\ RaisedHurt

\* What the statement under way can count on.
LEMMA AtWork ==
  ASSUME KnownWorkshops, TypeInv, Running
  PROVE  /\ Script[pc] \in Statements
         /\ phase = "setup" => GoesUp(Script[pc], Past,
              tls) /\ Brings(Script[pc]) \subseteq Makes(workshop)
         /\ phase = "teardown" => GoesDown(Script[pc], Absent(workshop) \cup Past)
<1>1. pc \in 1..Len(Script) /\ Len(Script) \in Nat /\ Script[pc] \in Statements
  BY AtStatement DEF TypeInv
<1>2. SetupServes(workshop, tls) /\ TeardownServes(workshop, tls)
  BY LabsServe DEF TypeInv, ProcessTyped
<1>3. ASSUME phase = "setup"
      PROVE  GoesUp(Script[pc], Past, tls) /\ Brings(Script[pc]) \subseteq Makes(workshop)
  <2>1. PICK L : Leads("setup", Script, {}, L, tls) /\ L \subseteq Makes(workshop)
    BY <1>2, <1>3 DEF SetupServes, Script
  <2>2. Sound("setup", Script[pc], {} \cup Before("setup", Script, pc), tls)
    BY <1>1, <2>1 DEF Leads, Works
  <2>3. {} \cup Before("setup", Script, pc) = Past
    BY <1>3 DEF Past
  <2>4. Brings(Script[pc]) \subseteq Total("setup", Script)
    <3>1. pc \in 1..(Len(Script) + 1 - 1)
      BY <1>1
    <3> QED
      BY <3>1 DEF Total, Before, Effect
  <2> QED
    BY <2>1, <2>2, <2>3, <2>4 DEF Sound, Leads
<1>4. ASSUME phase = "teardown" PROVE GoesDown(Script[pc], Absent(workshop) \cup Past)
  <2>1. phase # "setup"
    BY <1>4
  <2>2. PICK G : Leads("teardown", Script, Absent(workshop), G, tls)
    BY <1>2, <2>1 DEF TeardownServes, Script
  <2>3. Sound("teardown", Script[pc], Absent(workshop) \cup Before("teardown", Script, pc), tls)
    BY <1>1, <2>2 DEF Leads, Works
  <2> QED
    BY <1>4, <2>3 DEF Sound, Past
<1> QED
  BY <1>1, <1>3, <1>4

LEMMA PastNext ==
  ASSUME KnownWorkshops, TypeInv, Running, pc' = pc + 1, UNCHANGED <<workshop, tls, phase>>
  PROVE  Past' = Past \cup Effect(phase, Script[pc])
<1>1. pc \in Nat \ {0}
  BY AtStatement DEF TypeInv
<1>2. Script' = Script /\ phase' = phase
  BY DEF Script
<1>3. Before(phase, Script, pc + 1) = Before(phase, Script, pc) \cup Effect(phase, Script[pc])
  BY <1>1, BeforeNext
<1> QED
  BY <1>2, <1>3 DEF Past

LEMMA PastSame ==
  ASSUME UNCHANGED <<workshop, tls, phase, pc>>
  PROVE  Past' = Past /\ Script' = Script /\ Script'[pc'] = Script[pc]
BY DEF Past, Script

\* A process that raises; one that goes on with the next statement.
LEMMA RaisedKeeps ==
  ASSUME LabsInv, Raise, hurt', Bounded', Inhabited'
  PROVE  LabsInv'
BY DEF LabsInv, Raise, Running, RaisedHurt

LEMMA LostKeeps == ASSUME LabsInv, Lost, Bounded', Inhabited' PROVE LabsInv'
<1>1. Raise /\ hurt'
  BY DEF Lost
<1> QED
  BY <1>1, RaisedKeeps

LEMMA NextKeeps ==
  ASSUME KnownWorkshops, TypeInv, LabsInv, Running, pc' = pc + 1, step' = "list",
         UNCHANGED <<workshop, tls, phase, status>>, Bounded', Inhabited',
         phase = "setup" => Built', phase = "teardown" => Cleared'
  PROVE  LabsInv'
<1>1. status' = "running"
  BY DEF Running
<1>2. LoopKnows(Script[pc])'
  BY DEF LoopKnows
<1> QED
  BY <1>1, <1>2 DEF LabsInv, RaisedHurt

LEMMA DoneKeeps ==
  ASSUME KnownWorkshops, TypeInv, LabsInv, Running, Done, Bounded', Inhabited',
         phase = "setup" => Built', phase = "teardown" => Cleared'
  PROVE  LabsInv'
BY NextKeeps DEF Done

\* A loop goes on.
LEMMA LoopKeeps ==
  ASSUME LabsInv, Running, UNCHANGED <<workshop, tls, phase, status, pc>>, Bounded', Inhabited',
         phase = "setup" => Built', phase = "teardown" => Cleared', LoopKnows(Script[pc])'
  PROVE  LabsInv'
<1>1. status' = "running"
  BY DEF Running
<1> QED
  BY <1>1 DEF LabsInv, RaisedHurt

\* What the names keep apart.
LEMMA Apart ==
  /\ Artefacts \cap JobNames = {}
  /\ Artefacts \cap {"halt", "disable", "stop_all", "delete_jobs", "delete", "drop", "try", "ungroup"} = {}
  /\ Residue \subseteq Artefacts /\ Residue \cap (Processors \cup Groups \cup Tables) = {}
  /\ Groups \subseteq Artefacts /\ Processors \subseteq Artefacts /\ Controllers \subseteq Artefacts
  /\ Connections \subseteq Artefacts
  /\ Connections \cap Groups = {} /\ "consume_conn" \notin Connections \cup Groups
       \cup Processors \cup JobNames
BY DEF Artefacts, JobNames, Residue, Providers, Tables, Udfs, Groups, Controllers, Processors,
  Connections,
       EdgeProcessors, EdgeConnections

LEMMA UsesOnes ==
  /\ \A x : Uses(x) \cap JobNames = {} /\ "consume_conn" \notin Uses(x)
  /\ \A x \in Residue : Uses(x) = {}
  /\ \A x \in Connections : "consume_conn" \notin Uses(x)
<1>1. ASSUME NEW x PROVE Uses(x) \cap JobNames = {} /\ "consume_conn" \notin Uses(x)
  BY DEF Uses, JobNames
<1>2. \A x \in Residue : Uses(x) = {}
  BY DEF Uses, Residue
<1> QED
  BY <1>1, <1>2

\* "no call that names the API's path of an older version"
LEMMA PathsKnown ==
  ASSUME csa \in Nat
  PROVE  StopAccepted /\ \A name \in {"data-sources", "udfs", "sql-execute",
           "other"} : Answers(name)
<1> DEFINE Newest(V, v) == v \in V /\ v <= csa /\ \A w \in V : w <= csa => w <= v
<1>1. ASSUME NEW name, \E v : Newest(EndpointVersions(name), v)
      PROVE  Newest(EndpointVersions(name), Endpoint(name))
  BY <1>1 DEF Endpoint
<1>2. /\ \E v : Newest({0}, v)
      /\ \E v : Newest({0, 9}, v)
      /\ \E v : Newest({0, 6, 9}, v)
  <2>1. Newest({0}, 0)
    OBVIOUS
  <2>2. Newest({0, 9}, IF csa >= 9 THEN 9 ELSE 0)
    OBVIOUS
  <2>3. Newest({0, 6, 9}, IF csa >= 9 THEN 9 ELSE IF csa >= 6 THEN 6 ELSE 0)
    OBVIOUS
  <2> HIDE DEF Newest
  <2> QED
    BY <2>1, <2>2, <2>3
<1>3. /\ EndpointVersions("data-sources") = {0, 6, 9} /\ EndpointVersions("udfs") = {0, 9}
      /\ EndpointVersions("sql-execute") = {0, 9} /\ EndpointVersions("other") = {0}
      /\ EndpointVersions("stop-job") = {0, 9}
  BY DEF EndpointVersions
<1>4. \A name \in {"data-sources", "udfs", "sql-execute", "other", "stop-job"} :
        Newest(EndpointVersions(name), Endpoint(name))
  <2> HIDE DEF Newest
  <2> QED
    BY <1>1, <1>2, <1>3
<1>5. \A name \in {"data-sources", "udfs", "sql-execute", "other", "stop-job"} : Answers(name)
  BY <1>4 DEF Answers
<1>6. Endpoint("stop-job") \in {0, 9} /\ (csa >= 9) = (Endpoint("stop-job") = 9)
  <2>1. Newest({0, 9}, Endpoint("stop-job"))
    BY <1>3, <1>4
  <2> QED
    BY <2>1
<1> QED
  BY <1>5, <1>6 DEF StopAccepted

\* Needs and NeedsOn are the same.
LEMMA NeedsSame == \A x : Needs(x) = NeedsOn(x, tls)
BY DEF Needs, NeedsOn

\* The one artefact a statement of a set-up makes.
LEMMA OneMade ==
  ASSUME NEW c \in Statements, c.op \in {"make", "find", "control"}
  PROVE  \E x \in Artefacts : c.arg = {x} /\ Brings(c) = {x} /\ (c.op = "control"
           => x \in Controllers)
<1>1. \E x \in Artefacts : c.arg = {x} /\ (c.op = "control" => x \in Controllers)
  BY Says, Apart
<1>2. Brings(c) = c.arg
  BY DEF Brings
<1> QED
  BY <1>1, <1>2

\* It finds what it needs, and what it makes belongs to the workshop.
LEMMA Found ==
  ASSUME TypeInv, LabsInv, Running, phase = "setup", NEW x, NeedsOn(x, tls) \subseteq Still(Past)
  PROVE  Needs(x) \subseteq there
<1>1. Still(Past) \ JobNames \subseteq there
  BY DEF LabsInv, Running, Built
<1>2. NeedsOn(x, tls) \cap JobNames = {}
  BY UsesOnes DEF NeedsOn
<1> QED
  BY <1>1, <1>2, NeedsSame

LEMMA MadeKeeps ==
  ASSUME TypeInv, LabsInv, Running, phase = "setup", NEW x \in Artefacts, x \in Makes(workshop),
         Needs(x) \subseteq there, there' = there \cup {x}, UNCHANGED <<workshop, jobs, live>>
  PROVE  Bounded' /\ Inhabited'
<1>1. Bounded'
  BY DEF LabsInv, Bounded
<1>2. \A g \in Groups : g \in Uses(x) => g \in there
  <2>1. Groups \cap {"ssl", "keytab_svc"} = {}
    BY DEF Groups
  <2> QED
    BY <2>1, NeedsSame DEF NeedsOn
<1>3. Inhabited'
  BY <1>2 DEF LabsInv, Inhabited
<1> QED
  BY <1>1, <1>3

LEMMA MadeBuilt ==
  ASSUME KnownWorkshops, TypeInv, LabsInv, Running, phase = "setup",
         NEW x \in Artefacts, Brings(Script[pc]) = {x},
         there' = there \cup {x}, UNCHANGED <<live, jobs>>, Done
  PROVE  Built'
<1>1. Past' = Past \cup {x}
  BY PastNext DEF Done, Effect
<1>2. Built
  BY DEF LabsInv, Running
<1>3. JobNames \cap Past' = JobNames \cap Past
  BY <1>1, Apart
<1> QED
  BY <1>1, <1>2, <1>3 DEF Built, Still

LEMMA MakeServes ==
  ASSUME KnownWorkshops, TypeInv, csa \in Nat, LabsInv, MakeArtefact
  PROVE  LabsInv'
<1>1. Running /\ Script[pc].op = "make" /\ UNCHANGED <<jobs, live, enabled>>
  BY DEF MakeArtefact, Now, jobVars, canvasVars
<1>2. /\ Script[pc] \in Statements
      /\ phase = "setup" => GoesUp(Script[pc], Past,
           tls) /\ Brings(Script[pc]) \subseteq Makes(workshop)
      /\ phase = "teardown" => GoesDown(Script[pc], Absent(workshop) \cup Past)
  BY <1>1, AtWork
<1>3. phase = "setup"
  BY <1>1, <1>2 DEF GoesDown, TypeInv, ProcessTyped
<1>4. PICK x \in Artefacts : Arg = {x} /\ Brings(Script[pc]) = {x}
  BY <1>1, <1>2, OneMade DEF Arg
<1>5. The = x
  BY <1>4, TheOne
<1>6. NeedsOn(x, tls) \subseteq Still(Past) /\ x \notin Past \cup Residue /\ x \in Makes(workshop)
  BY <1>1, <1>2, <1>3, <1>4 DEF GoesUp, Arg
<1>7. Needs(x) \subseteq there
  BY <1>1, <1>3, <1>6, Found
<1>8. x \notin there
  BY <1>1, <1>3, <1>6 DEF LabsInv, Running, Built
<1>9. EndpointOf(x) \in {"data-sources", "udfs", "sql-execute", "other"}
  BY DEF EndpointOf
<1>10. Answers(EndpointOf(x))
  BY <1>9, PathsKnown
<1>11. there' = there \cup {x} /\ (Done \/ Lost)
  BY <1>5, <1>7, <1>8, <1>10 DEF MakeArtefact
<1>12. workshop' = workshop
  BY <1>11 DEF Done, Lost, Raise
<1>13. Bounded' /\ Inhabited'
  BY <1>1, <1>3, <1>6, <1>7, <1>11, <1>12, MadeKeeps
<1>14. CASE Done
  <2>1. Built'
    BY <1>1, <1>3, <1>4, <1>11, <1>14, MadeBuilt
  <2>2. phase # "teardown"
    BY <1>3
  <2> QED
    BY <1>1, <1>13, <1>14, <2>1, <2>2, DoneKeeps
<1>15. CASE Lost
  BY <1>13, <1>15, LostKeeps
<1> QED
  BY <1>11, <1>14, <1>15

LEMMA FindServes ==
  ASSUME KnownWorkshops, TypeInv, LabsInv, FindArtefact
  PROVE  LabsInv'
<1>1. Running /\ Script[pc].op = "find" /\ UNCHANGED <<jobs, live, enabled>>
  BY DEF FindArtefact, Now, jobVars, canvasVars
<1>2. /\ Script[pc] \in Statements
      /\ phase = "setup" => GoesUp(Script[pc], Past,
           tls) /\ Brings(Script[pc]) \subseteq Makes(workshop)
      /\ phase = "teardown" => GoesDown(Script[pc], Absent(workshop) \cup Past)
  BY <1>1, AtWork
<1>3. phase = "setup"
  BY <1>1, <1>2 DEF GoesDown, TypeInv, ProcessTyped
<1>4. PICK x \in Artefacts : Arg = {x} /\ Brings(Script[pc]) = {x}
  BY <1>1, <1>2, OneMade DEF Arg
<1>5. The = x
  BY <1>4, TheOne
<1>6. NeedsOn(x, tls) \subseteq Still(Past) /\ x \in Makes(workshop)
  BY <1>1, <1>2, <1>3, <1>4 DEF GoesUp, Arg
<1>7. Needs(x) \subseteq there
  BY <1>1, <1>3, <1>6, Found
<1>11. there' = there \cup {x} /\ (Done \/ Lost)
  BY <1>5, <1>7 DEF FindArtefact
<1>12. workshop' = workshop
  BY <1>11 DEF Done, Lost, Raise
<1>13. Bounded' /\ Inhabited'
  BY <1>1, <1>3, <1>6, <1>7, <1>11, <1>12, MadeKeeps
<1>14. CASE Done
  <2>1. Built'
    BY <1>1, <1>3, <1>4, <1>11, <1>14, MadeBuilt
  <2>2. phase # "teardown"
    BY <1>3
  <2> QED
    BY <1>1, <1>13, <1>14, <2>1, <2>2, DoneKeeps
<1>15. CASE Lost
  BY <1>13, <1>15, LostKeeps
<1> QED
  BY <1>11, <1>14, <1>15

LEMMA ControlServes ==
  ASSUME KnownWorkshops, TypeInv, LabsInv, CreateController, UNCHANGED jobVars
  PROVE  LabsInv'
<1>1. Running /\ Script[pc].op = "control" /\ UNCHANGED <<jobs, live>>
  BY DEF CreateController, Now, jobVars
<1>2. /\ Script[pc] \in Statements
      /\ phase = "setup" => GoesUp(Script[pc], Past,
           tls) /\ Brings(Script[pc]) \subseteq Makes(workshop)
      /\ phase = "teardown" => GoesDown(Script[pc], Absent(workshop) \cup Past)
  BY <1>1, AtWork
<1>3. phase = "setup"
  BY <1>1, <1>2 DEF GoesDown, TypeInv, ProcessTyped
<1>4. PICK x \in Artefacts : Arg = {x} /\ Brings(Script[pc]) = {x}
  BY <1>1, <1>2, OneMade DEF Arg
<1>5. The = x
  BY <1>4, TheOne
<1>6. /\ NeedsOn(x, tls) \subseteq Still(Past) /\ x \in Makes(workshop)
      /\ x \notin Past /\ (x \in Residue => \A y \in Past : x \notin Uses(y))
  BY <1>1, <1>2, <1>3, <1>4 DEF GoesUp, Arg
<1>7. Needs(x) \subseteq there
  BY <1>1, <1>3, <1>6, Found
<1>8. Built /\ enabled \subseteq there
  BY <1>1, <1>3 DEF LabsInv, Running, TypeInv, CanvasTyped
<1>9. x \notin enabled \/ ReferencedBy(x) = {}
  <2>1. CASE x \in enabled
    <3>1. x \in Residue
      BY <1>6, <1>8, <2>1 DEF Built
    <3>2. \A y \in there : x \notin Uses(y)
      BY <1>6, <1>8, <3>1, UsesOnes DEF Built
    <3>3. \A y \in enabled \cup live : y \in there
      BY <1>8 DEF Built
    <3> QED
      BY <3>2, <3>3 DEF ReferencedBy, Needs
  <2> QED
    BY <2>1
<1>11. there' = there \cup {x} /\ (Done \/ Lost)
  BY <1>5, <1>7, <1>9 DEF CreateController
<1>12. workshop' = workshop
  BY <1>11 DEF Done, Lost, Raise
<1>13. Bounded' /\ Inhabited'
  BY <1>1, <1>3, <1>6, <1>7, <1>11, <1>12, MadeKeeps
<1>14. CASE Done
  <2>1. Built'
    BY <1>1, <1>3, <1>4, <1>11, <1>14, MadeBuilt
  <2>2. phase # "teardown"
    BY <1>3
  <2> QED
    BY <1>1, <1>13, <1>14, <2>1, <2>2, DoneKeeps
<1>15. CASE Lost
  BY <1>13, <1>15, LostKeeps
<1> QED
  BY <1>11, <1>14, <1>15

\* A statement of a teardown adds its own name to the past, and what it removes.
LEMMA MarkedPast ==
  ASSUME KnownWorkshops, TypeInv, LabsInv, Running, phase = "teardown", NEW S,
         S \subseteq Artefacts, Undoes(Script[pc]) = {Script[pc].op} \cup S, there' \cap S = {},
         there' \subseteq there, Done
  PROVE  /\ Past' = Past \cup {Script[pc].op} \cup S
         /\ there' \cap Past' = {}
         /\ \A m \in {"halt", "disable", "stop_all", "delete_jobs"} :
              m \in Past' => m \in Past \/ m = Script[pc].op
<1>1. Past' = Past \cup {Script[pc].op} \cup S
  BY PastNext DEF Done, Effect
<1>2. GoesDown(Script[pc], Absent(workshop) \cup Past)
  BY AtWork
<1>3. Script[pc].op \notin Artefacts
  BY <1>2, Apart DEF GoesDown
<1>4. there \cap Past = {} /\ there \subseteq Artefacts
  BY DEF LabsInv, Running, Cleared, TypeInv, CanvasTyped
<1> QED
  BY <1>1, <1>3, <1>4, Apart

\* What is there only ever gets less.
LEMMA LessKeeps ==
  ASSUME LabsInv, NEW S, there' = there \ S,
         \A g \in Groups : g \in S => \A x \in there' : g \notin Uses(x),
         UNCHANGED <<workshop, jobs>>, live' \subseteq live
  PROVE  Bounded' /\ Inhabited'
<1>1. Bounded'
  BY DEF LabsInv, Bounded
<1>2. Inhabited'
  BY DEF LabsInv, Inhabited
<1> QED
  BY <1>1, <1>2

LEMMA DropServes ==
  ASSUME KnownWorkshops, TypeInv, LabsInv, DropArtefacts
  PROVE  LabsInv'
<1>1. /\ Running /\ Script[pc].op \in {"drop", "try"} /\ UNCHANGED <<jobs, live, enabled>>
      /\ there' = there \ Arg /\ (Done \/ Lost)
  BY DEF DropArtefacts, Now, jobVars, canvasVars
<1>2. /\ Script[pc] \in Statements
      /\ phase = "setup" => GoesUp(Script[pc], Past, tls)
      /\ phase = "teardown" => GoesDown(Script[pc], Absent(workshop) \cup Past)
  BY <1>1, AtWork
<1>3. Arg \subseteq Artefacts
  BY <1>1, <1>2, Says DEF Arg
<1>4. workshop' = workshop
  BY <1>1 DEF Done, Lost, Raise
<1>5. phase = "setup" => Arg \cap Past = {} /\ Built
  BY <1>1, <1>2 DEF GoesUp, Arg, LabsInv, Running
<1>6. phase = "teardown" => Arg \cap Groups = {} /\ Cleared
  BY <1>1, <1>2 DEF GoesDown, Arg, LabsInv, Running
<1>7. phase \in {"setup", "teardown"}
  BY DEF TypeInv, ProcessTyped
<1>8. \A g \in Groups : g \in Arg => \A x \in there' : g \notin Uses(x)
  <2>1. SUFFICES ASSUME NEW g \in Groups, g \in Arg, NEW x \in there', g \in Uses(x) PROVE FALSE
    OBVIOUS
  <2>2. g \in there
    BY <1>1, <2>1 DEF LabsInv, Inhabited
  <2>3. phase = "setup" /\ g \in Past
    BY <1>5, <1>6, <1>7, <2>1, <2>2, Apart DEF Built
  <2> QED
    BY <1>5, <2>1, <2>3
<1>9. Bounded' /\ Inhabited'
  BY <1>1, <1>4, <1>8, LessKeeps
<1>10. CASE Lost
  BY <1>9, <1>10, LostKeeps
<1>11. CASE Done
  <2>1. ASSUME phase = "setup" PROVE Built'
    <3>1. Past' = Past
      <4>1. Past' = Past \cup Effect(phase, Script[pc])
        BY <1>1, <1>11, PastNext DEF Done
      <4>2. Effect(phase, Script[pc]) = {}
        BY <1>1, <2>1 DEF Effect, Brings
      <4> QED
        BY <4>1, <4>2
    <3>2. live \subseteq Processors
      BY DEF TypeInv, CanvasTyped
    <3> QED
      BY <1>1, <1>5, <2>1, <3>1, <3>2, Apart DEF Built, Still
  <2>2. ASSUME phase = "teardown" PROVE Cleared'
    <3>1. Undoes(Script[pc]) = {Script[pc].op} \cup Arg
      BY <1>1 DEF Undoes, Arg
    <3>2. /\ there' \cap Past' = {}
          /\ \A m \in {"halt", "disable", "stop_all", "delete_jobs"} :
               m \in Past' => m \in Past \/ m = Script[pc].op
      BY <1>1, <1>3, <1>11, <2>2, <3>1, MarkedPast
    <3>3. hurt' = hurt
      BY <1>11 DEF Done
    <3> QED
      BY <1>1, <1>6, <2>2, <3>2, <3>3 DEF Cleared, Active
  <2> QED
    BY <1>1, <1>9, <1>11, <2>1, <2>2, DoneKeeps
<1> QED
  BY <1>1, <1>10, <1>11

\* An item that a deletion comes to is held by nothing.
LEMMA NotHeld ==
  ASSUME KnownWorkshops, TypeInv, LabsInv, Running, Script[pc].op = "delete", step = "call",
         NEW x \in todo, x = "kafka" => todo = {"kafka"}
  PROVE  /\ ~Held(x) /\ x \in Artefacts /\ x \in Arg
         /\ phase = "setup" => x = "consume_conn"
         /\ x \notin Groups
<1>1. /\ Script[pc] \in Statements
      /\ phase = "setup" => GoesUp(Script[pc], Past, tls)
      /\ phase = "teardown" => GoesDown(Script[pc], Absent(workshop) \cup Past)
  BY AtWork
<1>2. x \in Arg /\ Arg \subseteq Artefacts /\ Arg \cap there \subseteq todo
  <2>1. pc \in 1..Len(Script)
    BY AtStatement DEF TypeInv
  <2>2. todo \subseteq Arg
    BY <2>1 DEF TypeInv, ProcessTyped, Listed, Arg
  <2> QED
    BY <1>1, <2>2, Says DEF LabsInv, LoopKnows, Arg
<1>3. phase \in {"setup", "teardown"} /\ live \subseteq Processors /\ there \subseteq Artefacts
  BY DEF TypeInv, ProcessTyped, CanvasTyped
<1>4. CASE phase = "setup"
  <2>1. x = "consume_conn"
    BY <1>1, <1>2, <1>4 DEF GoesUp, Arg
  <2>2. \A y : <<y, x>> \notin Holds
    BY <2>1, Holders DEF EdgeProcessors
  <2> QED
    BY <1>2, <1>4, <2>1, <2>2, Apart DEF Held
<1>5. CASE phase = "teardown"
  <2>1. Arg \cap Groups = {} /\ Released(Arg, Absent(workshop) \cup Past)
    BY <1>1, <1>5 DEF GoesDown, Arg
  <2>2. Cleared /\ Bounded
    BY <1>5 DEF LabsInv, Running
  <2>3. ASSUME NEW y \in there, <<y, x>> \in Holds PROVE FALSE
    <3>1. y \in Absent(workshop) \cup Past \/ (x = "kafka" /\ y \in Arg)
      BY <1>2, <1>3, <2>1, <2>3 DEF Released
    <3>2. y \notin Absent(workshop) \cup Past
      BY <2>2, <2>3 DEF Cleared, Bounded, Absent
    <3>3. x = "kafka" /\ y = "kafka"
      BY <1>2, <2>3, <3>1, <3>2
    <3>4. <<"kafka", "kafka">> \in Holds
      BY <2>3, <3>3
    <3>5. \A y2 : <<y2, "kafka">> \in Holds => y2 \in {"kudu", "sr"}
      BY Holders DEF EdgeProcessors
    <3> QED
      BY <3>4, <3>5
  <2>4. x \in Connections => live = {}
    <3>1. x \in Connections => "halt" \in Absent(workshop) \cup Past
      BY <1>2, <2>1 DEF Released
    <3>2. "halt" \notin Absent(workshop)
      BY Apart DEF Absent
    <3> QED
      BY <2>2, <3>1, <3>2 DEF Cleared
  <2>5. phase # "setup"
    BY <1>5
  <2> QED
    BY <1>2, <2>1, <2>3, <2>4, <2>5 DEF Held
<1> QED
  BY <1>3, <1>4, <1>5

LEMMA DeleteServes ==
  ASSUME KnownWorkshops, TypeInv, LabsInv, DeleteArtefacts
  PROVE  LabsInv'
<1>1. /\ Running /\ Script[pc].op = "delete" /\ UNCHANGED <<jobs, live, enabled>>
      /\ UNCHANGED <<jobVars, canvasVars>>
  BY DEF DeleteArtefacts, Now, jobVars, canvasVars
<1>2. /\ Script[pc] \in Statements
      /\ phase = "setup" => GoesUp(Script[pc], Past, tls)
      /\ phase = "teardown" => GoesDown(Script[pc], Absent(workshop) \cup Past)
  BY <1>1, AtWork
<1>3. phase \in {"setup", "teardown"} /\ live \subseteq Processors /\ there \subseteq Artefacts
  BY DEF TypeInv, ProcessTyped, CanvasTyped
<1>4. (phase = "setup" => Built) /\ (phase = "teardown" => Cleared) /\ Bounded /\ Inhabited
  BY <1>1 DEF LabsInv, Running
<1>5. CASE List(Arg \cap there) /\ UNCHANGED there
  <2>1. /\ UNCHANGED <<workshop, tls, phase, status, pc, hurt>>
        /\ todo' = Arg \cap there /\ step' = "call"
    BY <1>5 DEF List, GoOn
  <2>2. Past' = Past /\ Script'[pc'] = Script[pc]
    BY <2>1, PastSame
  <2>3. Bounded' /\ Inhabited' /\ (phase = "setup" => Built') /\ (phase = "teardown" => Cleared')
    BY <1>1, <1>4, <1>5, <2>1, <2>2 DEF Bounded, Inhabited, Built, Cleared, Active
  <2>4. LoopKnows(Script[pc])'
    BY <1>1, <1>5, <2>1, <2>2 DEF LoopKnows, Arg
  <2> QED
    BY <1>1, <2>1, <2>3, <2>4, LoopKeeps
<1>6. CASE LoopEnds /\ UNCHANGED there
  <2>1. Arg \cap there = {} /\ Done
    BY <1>1, <1>6 DEF LoopEnds, LabsInv, LoopKnows, Arg
  <2>2. Bounded' /\ Inhabited'
    BY <1>1, <1>4, <1>6, <2>1 DEF Bounded, Inhabited, Done
  <2>3. ASSUME phase = "setup" PROVE Built'
    <3>1. Past' = Past \cup Effect(phase, Script[pc])
      BY <1>1, <2>1, PastNext DEF Done
    <3>2. Effect(phase, Script[pc]) = {}
      BY <1>1, <2>3 DEF Effect, Brings
    <3> QED
      BY <1>1, <1>4, <1>6, <2>3, <3>1, <3>2 DEF Built
  <2>4. ASSUME phase = "teardown" PROVE Cleared'
    <3>1. Undoes(Script[pc]) = {Script[pc].op} \cup Arg
      BY <1>1 DEF Undoes, Arg
    <3>2. Arg \subseteq Artefacts
      BY <1>1, <1>2, Says DEF Arg
    <3>3. /\ there' \cap Past' = {}
          /\ \A m \in {"halt", "disable", "stop_all", "delete_jobs"} :
               m \in Past' => m \in Past \/ m = Script[pc].op
      BY <1>1, <1>6, <2>1, <2>4, <3>1, <3>2, MarkedPast
    <3>4. hurt' = hurt
      BY <2>1 DEF Done
    <3> QED
      BY <1>1, <1>4, <2>4, <3>3, <3>4 DEF Cleared, Active
  <2> QED
    BY <1>1, <2>1, <2>2, <2>3, <2>4, DoneKeeps
<1>7. ASSUME step = "call", NEW x \in todo, x = "kafka" => todo = {"kafka"},
             IF Held(x) THEN Refused /\ UNCHANGED there
             ELSE /\ there' = there \ ({x} \cup {y \in Connections : x \in Uses(y)})
                  /\ Visited(x) \/ Lost
      PROVE  LabsInv'
  <2>1. /\ ~Held(x) /\ x \in Artefacts /\ x \in Arg /\ x \notin Groups
        /\ phase = "setup" => x = "consume_conn"
    BY <1>1, <1>7, NotHeld
  <2> DEFINE S == {x} \cup {y \in Connections : x \in Uses(y)}
  <2>2. there' = there \ S /\ (Visited(x) \/ Lost)
    BY <1>7, <2>1
  <2>3. workshop' = workshop
    BY <2>2 DEF Visited, GoOn, Lost, Raise
  <2>4. S \cap Groups = {} /\ x \in S /\ (phase = "setup" => S = {"consume_conn"})
    BY <2>1, Apart, UsesOnes
  <2> HIDE DEF S
  <2>5. Bounded' /\ Inhabited'
    BY <1>1, <2>2, <2>3, <2>4, LessKeeps
  <2>6. CASE Lost
    BY <2>5, <2>6, LostKeeps
  <2>7. CASE Visited(x)
    <3>1. /\ UNCHANGED <<workshop, tls, phase, status, pc, hurt>>
          /\ todo' = todo \ {x} /\ step' = "call"
      BY <2>7 DEF Visited, GoOn
    <3>2. Past' = Past /\ Script'[pc'] = Script[pc]
      BY <3>1, PastSame
    <3>3. ASSUME phase = "setup" PROVE Built'
      BY <1>1, <1>3, <1>4, <2>2, <2>4, <3>2, <3>3, Apart DEF Built, Still
    <3>4. ASSUME phase = "teardown" PROVE Cleared'
      BY <1>1, <1>4, <2>2, <3>1, <3>2, <3>4 DEF Cleared, Active
    <3>5. Arg \cap there \subseteq todo
      BY <1>1, <1>7 DEF LabsInv, LoopKnows, Arg
    <3>6. LoopKnows(Script[pc])'
      BY <1>1, <2>2, <2>4, <3>1, <3>2, <3>5 DEF LoopKnows, Arg
    <3> QED
      BY <1>1, <2>5, <3>1, <3>3, <3>4, <3>6, LoopKeeps
  <2> QED
    BY <2>2, <2>6, <2>7
<1> QED
  BY <1>5, <1>6, <1>7 DEF DeleteArtefacts

LEMMA LostServes ==
  ASSUME LabsInv, CallIsLost PROVE LabsInv'
<1>1. Lost /\ UNCHANGED <<there, jobs, live>>
  BY DEF CallIsLost, jobVars
<1>2. Bounded' /\ Inhabited'
  BY <1>1 DEF LabsInv, Bounded, Inhabited, Lost, Raise
<1> QED
  BY <1>1, <1>2, LostKeeps

\* Jobs only ever stop, except where one is submitted or deleted.
Quieter == \A j \in JobNames : (Active(j)' => Active(j)) /\ (jobs'[j] = "none") = (jobs[j] = "none")

LEMMA QuietCase == ASSUME JobsTyped, UNCHANGED jobs PROVE Quieter
BY DEF Quieter, Active

LEMMA StoppedQuiet ==
  ASSUME JobsTyped, NEW i \in JobNames, Stopped(i) PROVE Quieter
<1>1. CASE jobs[i] = "running"
  <2>1. jobs' = [jobs EXCEPT ![i] = "stopped"] \/ jobs' = [jobs EXCEPT ![i] = "stopping"]
    BY <1>1 DEF Stopped
  <2>2. ASSUME NEW t \in {"stopped", "stopping"}, jobs' = [jobs EXCEPT ![i] = t],
               NEW j \in JobNames
        PROVE  (Active(j)' => Active(j)) /\ (jobs'[j] = "none") = (jobs[j] = "none")
    <3>1. jobs'[j] = IF j = i THEN t ELSE jobs[j]
      BY <2>2 DEF JobsTyped
    <3> QED
      BY <1>1, <3>1 DEF Active
  <2> QED
    BY <2>1, <2>2 DEF Quieter
<1>2. CASE jobs[i] # "running"
  BY <1>2, QuietCase DEF Stopped
<1> QED
  BY <1>1, <1>2

LEMMA QuieterKeeps ==
  ASSUME LabsInv, Quieter, UNCHANGED <<workshop, there, live>> PROVE Bounded' /\ Inhabited'
BY DEF Quieter, LabsInv, Bounded, Inhabited

LEMMA QuieterCleared ==
  ASSUME Cleared, Quieter, UNCHANGED <<workshop, tls, phase, pc, hurt, there, live,
           enabled>> PROVE Cleared'
<1>1. Past' = Past
  BY PastSame
<1> QED
  BY <1>1 DEF Cleared, Quieter

LEMMA BuiltSame ==
  ASSUME Built, Quieter, UNCHANGED <<workshop, tls, phase, pc, there, live>> PROVE Built'
<1>1. Past' = Past
  BY PastSame
<1> QED
  BY <1>1 DEF Built, Quieter

LEMMA SubmitServes ==
  ASSUME KnownWorkshops, TypeInv, LabsInv, SubmitJob, UNCHANGED canvasVars
  PROVE  LabsInv'
<1>1. /\ Running /\ Script[pc].op = "submit" /\ UNCHANGED <<there, live, enabled>>
      /\ Done \/ Lost
  BY DEF SubmitJob, Now, canvasVars
<1>2. /\ Script[pc] \in Statements
      /\ phase = "setup" => GoesUp(Script[pc], Past,
           tls) /\ Brings(Script[pc]) \subseteq Makes(workshop)
      /\ phase = "teardown" => GoesDown(Script[pc], Absent(workshop) \cup Past)
  BY <1>1, AtWork
<1>3. phase = "setup"
  BY <1>1, <1>2 DEF GoesDown, TypeInv, ProcessTyped
<1>4. PICK i \in JobNames : Arg = {i} /\ Brings(Script[pc]) = {i}
  <2>1. Brings(Script[pc]) = Script[pc].arg
    BY <1>1 DEF Brings
  <2> QED
    BY <1>1, <1>2, <2>1, Says DEF Arg
<1>5. The = i
  BY <1>4, TheOne
<1>6. workshop' = workshop
  BY <1>1 DEF Done, Lost, Raise
<1>7. \A j \in JobNames : j # i => jobs'[j] = jobs[j]
  BY <1>5 DEF SubmitJob, TypeInv, JobsTyped
<1>11. jobs'[i] # "none"
  BY <1>5 DEF SubmitJob, TypeInv, JobsTyped
<1>8. Bounded' /\ Inhabited'
  BY <1>1, <1>2, <1>3, <1>4, <1>6, <1>7 DEF LabsInv, Bounded, Inhabited
<1>9. CASE Lost
  BY <1>8, <1>9, LostKeeps
<1>10. CASE Done
  <2>1. Past' = Past \cup {i}
    BY <1>1, <1>3, <1>4, <1>10, PastNext DEF Done, Effect
  <2>2. Built
    BY <1>1, <1>3 DEF LabsInv, Running
  <2>3. Built'
    BY <1>1, <1>7, <1>11, <2>1, <2>2 DEF Built, Still
  <2>4. phase # "teardown"
    BY <1>3
  <2> QED
    BY <1>1, <1>8, <1>10, <2>3, <2>4, DoneKeeps
<1> QED
  BY <1>1, <1>9, <1>10

LEMMA StopNamedServes ==
  ASSUME KnownWorkshops, TypeInv, csa \in Nat, LabsInv, StopNamed, UNCHANGED canvasVars
  PROVE  LabsInv'
<1>1. /\ Running /\ Script[pc].op = "stop" /\ UNCHANGED <<there, live, enabled>>
  BY DEF StopNamed, Now, canvasVars
<1>2. /\ Script[pc] \in Statements
      /\ phase = "setup" => GoesUp(Script[pc], Past,
           tls) /\ Brings(Script[pc]) \subseteq Makes(workshop)
      /\ phase = "teardown" => GoesDown(Script[pc], Absent(workshop) \cup Past)
  BY <1>1, AtWork
<1>3. phase = "setup" /\ phase # "teardown"
  BY <1>1, <1>2 DEF GoesDown, TypeInv, ProcessTyped
<1>4. PICK i \in JobNames : Arg = {i}
  BY <1>1, <1>2, Says DEF Arg
<1>5. The = i
  BY <1>4, TheOne
<1>6. Built
  BY <1>1, <1>3 DEF LabsInv, Running
<1>7. CASE /\ Stopped(i)
           /\ \/ step' = "sleep" /\ GoOn
              \/ Lost
  <2>1. Quieter
    BY <1>7, StoppedQuiet DEF TypeInv
  <2>2. workshop' = workshop
    BY <1>7 DEF GoOn, Lost, Raise
  <2>3. Bounded' /\ Inhabited'
    BY <1>1, <2>1, <2>2, QuieterKeeps
  <2>4. CASE Lost
    BY <2>3, <2>4, LostKeeps
  <2>5. CASE step' = "sleep" /\ GoOn
    <3>1. UNCHANGED <<workshop, tls, phase, status, pc>>
      BY <2>5 DEF GoOn
    <3>2. Script'[pc'] = Script[pc]
      BY <3>1, PastSame
    <3>3. Built'
      BY <1>1, <1>6, <2>1, <3>1, BuiltSame
    <3>4. LoopKnows(Script[pc])'
      BY <1>1, <3>2 DEF LoopKnows
    <3> QED
      BY <1>1, <1>3, <2>3, <3>1, <3>3, <3>4, LoopKeeps
  <2> QED
    BY <1>7, <2>4, <2>5
<1>8. CASE Done /\ UNCHANGED jobs
  <2>1. Quieter
    BY <1>8, QuietCase DEF TypeInv
  <2>2. Bounded' /\ Inhabited'
    BY <1>1, <1>8, <2>1, QuieterKeeps DEF Done
  <2>3. Past' = Past
    <3>1. Past' = Past \cup Effect(phase, Script[pc])
      BY <1>1, <1>8, PastNext DEF Done
    <3>2. Effect(phase, Script[pc]) = {}
      BY <1>1, <1>3 DEF Effect, Brings
    <3> QED
      BY <3>1, <3>2
  <2>4. Built'
    BY <1>1, <1>6, <1>8, <2>3 DEF Built
  <2> QED
    BY <1>1, <1>3, <1>8, <2>2, <2>4, DoneKeeps
<1>9. StopAccepted
  BY PathsKnown
<1> QED
  BY <1>5, <1>7, <1>8, <1>9 DEF StopNamed

\* Where a loop over jobs stands: in a teardown, over jobs.
LEMMA LoopOverJobs ==
  ASSUME KnownWorkshops, TypeInv, LabsInv, Running, Script[pc].op \in {"stop_all", "delete_jobs"}
  PROVE  /\ phase = "teardown" /\ phase # "setup" /\ Cleared /\ LoopKnows(Script[pc])
         /\ todo \subseteq JobNames
<1>1. /\ pc \in 1..Len(Script)
      /\ phase = "setup" => GoesUp(Script[pc], Past, tls)
  BY AtWork, AtStatement DEF TypeInv
<1>2. phase = "teardown" /\ phase # "setup"
  BY <1>1 DEF GoesUp, TypeInv, ProcessTyped
<1>3. todo \subseteq JobNames
  BY <1>1 DEF TypeInv, ProcessTyped, Listed
<1> QED
  BY <1>2, <1>3 DEF LabsInv, Running

LEMMA StopByIdServes ==
  ASSUME KnownWorkshops, TypeInv, csa \in Nat, LabsInv, Running,
         Script[pc].op \in {"stop_all", "delete_jobs"}, StopById, UNCHANGED <<there, canvasVars>>
  PROVE  LabsInv'
<1>1. /\ phase = "teardown" /\ phase # "setup" /\ Cleared /\ LoopKnows(Script[pc])
      /\ todo \subseteq JobNames
  BY LoopOverJobs
<1>2. StopAccepted
  BY PathsKnown
<1>3. \/ /\ step = "call" /\ \E i \in todo : Stopped(i)
         /\ (step' = "poll" /\ UNCHANGED todo /\ GoOn) \/ Lost
      \/ /\ step = "poll" /\ ~Active(target) /\ step' = "sleep"
         /\ UNCHANGED <<jobs, todo, target>> /\ GoOn
  BY <1>2 DEF StopById
<1>4. Quieter
  <2>1. CASE \E i \in todo : Stopped(i)
    BY <1>1, <2>1, StoppedQuiet DEF TypeInv
  <2>2. CASE UNCHANGED jobs
    BY <2>2, QuietCase DEF TypeInv
  <2> QED
    BY <1>3, <2>1, <2>2
<1>5. workshop' = workshop
  BY <1>3 DEF GoOn, Lost, Raise
<1>6. Bounded' /\ Inhabited'
  BY <1>4, <1>5, QuieterKeeps DEF canvasVars
<1>7. CASE Lost
  BY <1>6, <1>7, LostKeeps
<1>8. CASE /\ step # "list" /\ GoOn /\ UNCHANGED todo
           /\ step' = "poll" \/ (step' = "sleep" /\ UNCHANGED <<jobs, target>> /\ ~Active(target))
  <2>1. UNCHANGED <<workshop, tls, phase, status, pc, hurt>>
    BY <1>8 DEF GoOn
  <2>2. Script'[pc'] = Script[pc]
    BY <2>1, PastSame
  <2>3. Cleared'
    BY <1>1, <1>4, <2>1, QuieterCleared DEF canvasVars
  <2>4. step' = "sleep" => ~Active(target)'
    BY <1>8 DEF Active
  <2>5. LoopKnows(Script[pc])'
    BY <1>1, <1>4, <1>8, <2>2, <2>4 DEF LoopKnows, Quieter
  <2> QED
    BY <1>1, <1>6, <2>1, <2>3, <2>5, LoopKeeps
<1> QED
  BY <1>3, <1>7, <1>8

\* A loop over jobs that lists its jobs; one that has visited all of them.
LEMMA JobsListed ==
  ASSUME KnownWorkshops, TypeInv, LabsInv, Running, Script[pc].op \in {"stop_all", "delete_jobs"},
         List({j \in JobNames : IF Script[pc].op = "stop_all" THEN Active(j) ELSE jobs[j] # "none"}),
         UNCHANGED <<there, jobs, canvasVars>>
  PROVE  LabsInv'
<1>1. phase = "teardown" /\ phase # "setup" /\ Cleared
  BY LoopOverJobs
<1>2. /\ UNCHANGED <<workshop, tls, phase, status, pc, hurt>> /\ step' = "call"
      /\ todo' = {j \in JobNames : IF Script[pc].op = "stop_all" THEN Active(j) ELSE jobs[j] # "none"}
  BY DEF List, GoOn
<1>3. Script'[pc'] = Script[pc]
  BY <1>2, PastSame
<1>4. Quieter
  BY QuietCase DEF TypeInv
<1>5. Bounded' /\ Inhabited'
  BY <1>2, <1>4, QuieterKeeps DEF canvasVars
<1>6. Cleared'
  BY <1>1, <1>2, <1>4, QuieterCleared DEF canvasVars
<1>7. LoopKnows(Script[pc])'
  BY <1>2, <1>3 DEF LoopKnows, Active
<1> QED
  BY <1>1, <1>2, <1>5, <1>6, <1>7, LoopKeeps

LEMMA JobsVisited ==
  ASSUME KnownWorkshops, TypeInv, LabsInv, Running, Script[pc].op \in {"stop_all", "delete_jobs"},
         LoopEnds, UNCHANGED <<there, jobs, canvasVars>>
  PROVE  LabsInv'
<1>1. /\ phase = "teardown" /\ phase # "setup" /\ Cleared /\ LoopKnows(Script[pc])
  BY LoopOverJobs
<1>2. Done /\ step = "call" /\ todo = {}
  BY DEF LoopEnds
<1>3. Quieter
  BY QuietCase DEF TypeInv
<1>4. Bounded' /\ Inhabited'
  BY <1>2, <1>3, QuieterKeeps DEF canvasVars, Done
<1>5. Undoes(Script[pc]) = {Script[pc].op} \cup {}
  BY DEF Undoes
<1>6. /\ there' \cap Past' = {}
      /\ \A m \in {"halt", "disable", "stop_all", "delete_jobs"} :
           m \in Past' => m \in Past \/ m = Script[pc].op
  BY <1>1, <1>2, <1>5, MarkedPast
<1>7. /\ Script[pc].op = "stop_all" => \A j \in JobNames : ~Active(j)
      /\ Script[pc].op = "delete_jobs" => \A j \in JobNames : jobs[j] = "none"
  BY <1>1, <1>2 DEF LoopKnows
<1>8. hurt' = hurt /\ enabled' = enabled /\ live' = live
  BY <1>2 DEF Done, canvasVars
<1>9. Cleared'
  BY <1>1, <1>6, <1>7, <1>8 DEF Cleared, Active
<1> QED
  BY <1>1, <1>2, <1>4, <1>9, DoneKeeps

LEMMA StopAllServes ==
  ASSUME KnownWorkshops, TypeInv, csa \in Nat, LabsInv, StopAllJobs, UNCHANGED canvasVars
  PROVE  LabsInv'
<1>1. Running /\ Script[pc].op = "stop_all" /\ UNCHANGED there
  BY DEF StopAllJobs, Now
<1>2. CASE StopById
  BY <1>1, <1>2, StopByIdServes
<1>3. CASE List({j \in JobNames : Active(j)}) /\ UNCHANGED jobs
  <2>1. {j \in JobNames : IF Script[pc].op = "stop_all" THEN Active(j) ELSE jobs[j] # "none"}
          = {j \in JobNames : Active(j)}
    BY <1>1
  <2> QED
    BY <1>1, <1>3, <2>1, JobsListed
<1>4. CASE LoopEnds /\ UNCHANGED jobs
  BY <1>1, <1>4, JobsVisited
<1>5. CASE step = "sleep" /\ Visited(target) /\ UNCHANGED jobs
  <2>1. phase = "teardown" /\ phase # "setup" /\ Cleared /\ LoopKnows(Script[pc])
    BY <1>1, LoopOverJobs
  <2>2. /\ UNCHANGED <<workshop, tls, phase, status, pc, hurt>>
        /\ step' = "call" /\ todo' = todo \ {target}
    BY <1>5 DEF Visited, GoOn
  <2>3. Script'[pc'] = Script[pc]
    BY <2>2, PastSame
  <2>4. Quieter
    BY <1>5, QuietCase DEF TypeInv
  <2>5. Bounded' /\ Inhabited'
    BY <1>1, <2>2, <2>4, QuieterKeeps DEF canvasVars
  <2>6. Cleared'
    BY <1>1, <2>1, <2>2, <2>4, QuieterCleared DEF canvasVars
  <2>7. LoopKnows(Script[pc])'
    BY <1>1, <1>5, <2>1, <2>2, <2>3 DEF LoopKnows, Active
  <2> QED
    BY <1>1, <2>1, <2>2, <2>5, <2>6, <2>7, LoopKeeps
<1> QED
  BY <1>2, <1>3, <1>4, <1>5 DEF StopAllJobs

LEMMA DeleteAllServes ==
  ASSUME KnownWorkshops, TypeInv, csa \in Nat, LabsInv, DeleteAllJobs, UNCHANGED canvasVars
  PROVE  LabsInv'
<1>1. Running /\ Script[pc].op = "delete_jobs" /\ UNCHANGED there
  BY DEF DeleteAllJobs, Now
<1>2. CASE StopById
  BY <1>1, <1>2, StopByIdServes
<1>3. CASE List({j \in JobNames : jobs[j] # "none"}) /\ UNCHANGED jobs
  <2>1. {j \in JobNames : IF Script[pc].op = "stop_all" THEN Active(j) ELSE jobs[j] # "none"}
          = {j \in JobNames : jobs[j] # "none"}
    BY <1>1
  <2> QED
    BY <1>1, <1>3, <2>1, JobsListed
<1>4. CASE LoopEnds /\ UNCHANGED jobs
  BY <1>1, <1>4, JobsVisited
<1>5. CASE /\ step = "sleep"
           /\ IF Active(target) THEN Refused /\ UNCHANGED jobs
              ELSE jobs' = [jobs EXCEPT ![target] = "none"] /\ (Visited(target) \/ Lost)
  <2>1. phase = "teardown" /\ phase # "setup" /\ Cleared /\ LoopKnows(Script[pc])
    BY <1>1, LoopOverJobs
  <2>2. ~Active(target)
    BY <1>1, <1>5, <2>1 DEF LoopKnows
  <2>3. jobs' = [jobs EXCEPT ![target] = "none"] /\ (Visited(target) \/ Lost)
    BY <1>5, <2>2
  <2>4. target \in JobNames /\ \A j \in JobNames : jobs'[j] = IF j = target THEN "none" ELSE jobs[j]
    BY <2>3 DEF TypeInv, JobsTyped
  <2>5. workshop' = workshop /\ UNCHANGED <<live, enabled>>
    BY <2>3 DEF Visited, GoOn, Lost, Raise, canvasVars
  <2>6. Bounded' /\ Inhabited'
    BY <1>1, <2>4, <2>5 DEF LabsInv, Bounded, Inhabited
  <2>7. CASE Lost
    BY <2>6, <2>7, LostKeeps
  <2>8. CASE Visited(target)
    <3>1. /\ UNCHANGED <<workshop, tls, phase, status, pc, hurt>>
          /\ step' = "call" /\ todo' = todo \ {target}
      BY <2>8 DEF Visited, GoOn
    <3>2. Past' = Past /\ Script'[pc'] = Script[pc]
      BY <3>1, PastSame
    <3>3. \A j \in JobNames : Active(j)' => Active(j)
      BY <2>4 DEF Active
    <3>4. Cleared'
      BY <1>1, <2>1, <2>4, <2>5, <3>1, <3>2, <3>3 DEF Cleared
    <3>5. LoopKnows(Script[pc])'
      BY <1>1, <1>5, <2>1, <2>4, <3>1, <3>2 DEF LoopKnows
    <3> QED
      BY <1>1, <2>1, <2>6, <3>1, <3>4, <3>5, LoopKeeps
  <2> QED
    BY <2>3, <2>7, <2>8
<1> QED
  BY <1>2, <1>3, <1>4, <1>5 DEF DeleteAllJobs

\* Time passes, or a job ends by itself.
LEMMA TimeServes ==
  ASSUME KnownWorkshops, TypeInv, LabsInv, JobDies \/ Second, UNCHANGED canvasVars
  PROVE  LabsInv'
<1>1. UNCHANGED <<processVars, target, there>>
  BY DEF JobDies, Second
<1>2. UNCHANGED <<workshop, tls, phase, status, pc, step, todo, hurt, live, enabled, failed>>
  BY <1>1 DEF processVars, canvasVars
<1>3. Quieter
  <2>1. ASSUME NEW i \in JobNames, jobs[i] = "running", jobs' = [jobs EXCEPT ![i] = "stopped"],
               NEW j \in JobNames
        PROVE  (Active(j)' => Active(j)) /\ (jobs'[j] = "none") = (jobs[j] = "none")
    <3>1. jobs'[j] = IF j = i THEN "stopped" ELSE jobs[j]
      BY <2>1 DEF TypeInv, JobsTyped
    <3> QED
      BY <2>1, <3>1 DEF Active
  <2>2. ASSUME Second, NEW j \in JobNames
        PROVE  (Active(j)' => Active(j)) /\ (jobs'[j] = "none") = (jobs[j] = "none")
    <3>1. jobs'[j] = IF jobs[j] = "stopping" /\ left[j] <= 1 THEN "stopped" ELSE jobs[j]
      BY <2>2 DEF Second
    <3> QED
      BY <3>1 DEF Active
  <2> QED
    BY <2>1, <2>2 DEF JobDies, Quieter
<1>4. Bounded' /\ Inhabited'
  BY <1>1, <1>2, <1>3, QuieterKeeps
<1>5. Past' = Past /\ Script' = Script /\ Script'[pc'] = Script[pc]
  BY <1>2, PastSame
<1>6. Built => Built'
  BY <1>1, <1>2, <1>3, BuiltSame
<1>7. Cleared => Cleared'
  BY <1>1, <1>2, <1>3, QuieterCleared
<1>8. target' = target /\ target \in JobNames
  BY <1>1 DEF TypeInv, JobsTyped
<1>9. LoopKnows(Script[pc]) => LoopKnows(Script[pc])'
  BY <1>1, <1>2, <1>3, <1>5, <1>8 DEF LoopKnows, Quieter, Active
<1>10. Running' = Running
  BY <1>2, <1>5 DEF Running
<1> QED
  BY <1>2, <1>4, <1>5, <1>6, <1>7, <1>9, <1>10 DEF LabsInv, RaisedHurt

LEMMA StartServes ==
  ASSUME KnownWorkshops, TypeInv, LabsInv, StartFlow, UNCHANGED jobVars
  PROVE  LabsInv'
<1>1. /\ Running /\ Script[pc].op = "start" /\ UNCHANGED <<there, enabled, jobs>>
      /\ live' \subseteq Processors \cap there
      /\ \/ Done
         \/ /\ UNCHANGED <<workshop, tls, phase, status, step, hurt>>
            /\ pc' = pc + 1 \/ (pc' = pc /\ UNCHANGED todo)
  BY DEF StartFlow, Now, jobVars
<1>2. /\ Script[pc] \in Statements
      /\ phase = "setup" => GoesUp(Script[pc], Past,
           tls) /\ Brings(Script[pc]) \subseteq Makes(workshop)
      /\ phase = "teardown" => GoesDown(Script[pc], Absent(workshop) \cup Past)
  BY <1>1, AtWork
<1>3. phase = "setup" /\ phase # "teardown"
  BY <1>1, <1>2 DEF GoesDown, TypeInv, ProcessTyped
<1>4. step = "list" /\ Built
  BY <1>1, <1>3 DEF LabsInv, LoopKnows, Running
<1>5. UNCHANGED <<workshop, tls, phase, status, step>> /\ (pc' = pc + 1 \/ pc' = pc)
  BY <1>1, <1>4 DEF Done
<1>6. Bounded' /\ Inhabited'
  <2>1. Residue \cap Processors = {}
    BY Apart
  <2> QED
    BY <1>1, <1>5, <2>1 DEF LabsInv, Bounded, Inhabited
<1>7. CASE pc' = pc + 1
  <2>1. Past' = Past \cup Effect(phase, Script[pc])
    BY <1>1, <1>5, <1>7, PastNext
  <2>2. Effect(phase, Script[pc]) = {}
    BY <1>1, <1>3 DEF Effect, Brings
  <2>3. Built'
    BY <1>1, <1>4, <2>1, <2>2 DEF Built
  <2> QED
    BY <1>1, <1>3, <1>4, <1>5, <1>6, <1>7, <2>3, NextKeeps
<1>8. CASE pc' = pc
  <2>1. Past' = Past /\ Script'[pc'] = Script[pc]
    BY <1>5, <1>8, PastSame
  <2>2. Built'
    BY <1>1, <1>4, <2>1 DEF Built
  <2>3. LoopKnows(Script[pc])'
    BY <1>1, <1>4, <1>5, <2>1 DEF LoopKnows
  <2> QED
    BY <1>1, <1>3, <1>5, <1>6, <1>8, <2>2, <2>3, LoopKeeps
<1> QED
  BY <1>5, <1>7, <1>8

LEMMA RunServes ==
  ASSUME KnownWorkshops, TypeInv, LabsInv, RunProcessors, UNCHANGED jobVars
  PROVE  LabsInv'
<1>1. /\ Running /\ Script[pc].op = "run" /\ UNCHANGED <<there, enabled, jobs>>
      /\ live' = live \cup Arg /\ (Done \/ Lost)
  BY DEF RunProcessors, Now, jobVars
<1>2. /\ Script[pc] \in Statements
      /\ phase = "setup" => GoesUp(Script[pc], Past,
           tls) /\ Brings(Script[pc]) \subseteq Makes(workshop)
      /\ phase = "teardown" => GoesDown(Script[pc], Absent(workshop) \cup Past)
  BY <1>1, AtWork
<1>3. phase = "setup" /\ phase # "teardown"
  BY <1>1, <1>2 DEF GoesDown, TypeInv, ProcessTyped
<1>4. Built
  BY <1>1, <1>3 DEF LabsInv, Running
<1>5. Arg \subseteq Processors /\ Arg \subseteq there
  <2>1. Arg \subseteq Processors
    BY <1>1, <1>2, Says DEF Arg
  <2>2. Arg \subseteq Still(Past)
    BY <1>1, <1>2, <1>3 DEF GoesUp, Arg
  <2> QED
    BY <1>4, <2>1, <2>2, Apart DEF Built
<1>6. workshop' = workshop
  BY <1>1 DEF Done, Lost, Raise
<1>7. Bounded' /\ Inhabited'
  <2>1. Residue \cap Processors = {}
    BY Apart
  <2> QED
    BY <1>1, <1>5, <1>6, <2>1 DEF LabsInv, Bounded, Inhabited
<1>8. CASE Lost
  BY <1>7, <1>8, LostKeeps
<1>9. CASE Done
  <2>1. Past' = Past \cup Effect(phase, Script[pc])
    BY <1>1, <1>9, PastNext DEF Done
  <2>2. Effect(phase, Script[pc]) = {}
    BY <1>1, <1>3 DEF Effect, Brings
  <2>3. Built'
    BY <1>1, <1>4, <1>5, <2>1, <2>2 DEF Built
  <2> QED
    BY <1>1, <1>3, <1>7, <1>9, <2>3, DoneKeeps
<1> QED
  BY <1>1, <1>8, <1>9

LEMMA HaltServes ==
  ASSUME KnownWorkshops, TypeInv, LabsInv, StopCanvas, UNCHANGED jobVars
  PROVE  LabsInv'
<1>1. /\ Running /\ Script[pc].op = "halt" /\ UNCHANGED <<there, enabled, jobs>>
      /\ live' = {} /\ (Done \/ Lost)
  BY DEF StopCanvas, Now, jobVars
<1>2. /\ Script[pc] \in Statements
      /\ phase = "setup" => GoesUp(Script[pc], Past, tls)
  BY <1>1, AtWork
<1>3. phase = "teardown" /\ phase # "setup"
  BY <1>1, <1>2 DEF GoesUp, TypeInv, ProcessTyped
<1>4. Cleared
  BY <1>1, <1>3 DEF LabsInv, Running
<1>5. workshop' = workshop
  BY <1>1 DEF Done, Lost, Raise
<1>6. Bounded' /\ Inhabited'
  BY <1>1, <1>5 DEF LabsInv, Bounded, Inhabited
<1>7. CASE Lost
  BY <1>6, <1>7, LostKeeps
<1>8. CASE Done
  <2>1. Undoes(Script[pc]) = {Script[pc].op} \cup {}
    BY <1>1 DEF Undoes
  <2>2. /\ there' \cap Past' = {}
        /\ \A m \in {"halt", "disable", "stop_all", "delete_jobs"} :
             m \in Past' => m \in Past \/ m = Script[pc].op
    BY <1>1, <1>3, <1>8, <2>1, MarkedPast
  <2>3. hurt' = hurt
    BY <1>8 DEF Done
  <2>4. Cleared'
    BY <1>1, <1>4, <2>2, <2>3 DEF Cleared, Active
  <2> QED
    BY <1>1, <1>3, <1>6, <1>8, <2>4, DoneKeeps
<1> QED
  BY <1>1, <1>7, <1>8

LEMMA DisableServes ==
  ASSUME KnownWorkshops, TypeInv, LabsInv, DisableControllers, UNCHANGED jobVars
  PROVE  LabsInv'
<1>1. Running /\ Script[pc].op = "disable" /\ UNCHANGED <<there, live, jobs>>
  BY DEF DisableControllers, Now, jobVars
<1>2. /\ Script[pc] \in Statements
      /\ phase = "setup" => GoesUp(Script[pc], Past, tls)
  BY <1>1, AtWork
<1>3. phase = "teardown" /\ phase # "setup"
  BY <1>1, <1>2 DEF GoesUp, TypeInv, ProcessTyped
<1>4. Cleared /\ LoopKnows(Script[pc]) /\ Inhabited /\ Bounded
  BY <1>1, <1>3 DEF LabsInv, Running
<1>5. ASSUME UNCHANGED <<workshop, tls, phase, status, pc>>, hurt' = hurt \/ hurt',
        enabled' \subseteq enabled,
             step' = "call" /\ ~failed' /\ ~hurt' => enabled' \subseteq todo'
      PROVE  LabsInv'
  <2>1. Past' = Past /\ Script'[pc'] = Script[pc]
    BY <1>5, PastSame
  <2>2. Bounded' /\ Inhabited'
    BY <1>1, <1>4, <1>5 DEF Bounded, Inhabited
  <2>3. Cleared'
    BY <1>1, <1>4, <1>5, <2>1 DEF Cleared, Active
  <2>4. LoopKnows(Script[pc])'
    BY <1>1, <1>5, <2>1 DEF LoopKnows
  <2> QED
    BY <1>1, <1>3, <1>5, <2>2, <2>3, <2>4, LoopKeeps
<1>6. CASE List(Controllers \cap there) /\ UNCHANGED <<enabled, failed>>
  <2>1. enabled \subseteq Controllers \cap there
    BY DEF TypeInv, CanvasTyped
  <2> QED
    BY <1>5, <1>6, <2>1 DEF List, GoOn
<1>7. CASE ~failed /\ LoopEnds /\ UNCHANGED <<enabled, failed>>
  <2>1. Done /\ (hurt \/ enabled = {}) /\ hurt' = hurt
    BY <1>1, <1>4, <1>7 DEF LoopEnds, LoopKnows, Done
  <2>2. Undoes(Script[pc]) = {Script[pc].op} \cup {}
    BY <1>1 DEF Undoes
  <2>3. /\ there' \cap Past' = {}
        /\ \A m \in {"halt", "disable", "stop_all", "delete_jobs"} :
             m \in Past' => m \in Past \/ m = Script[pc].op
    <3>1. Done /\ {} \subseteq Artefacts /\ there' \cap {} = {} /\ there' \subseteq there
      BY <1>1, <2>1
    <3> QED
      BY <1>1, <1>3, <2>2, <3>1, MarkedPast
  <2>4. Cleared'
    BY <1>1, <1>4, <1>7, <2>1, <2>3 DEF Cleared, Active
  <2>5. Bounded' /\ Inhabited'
    BY <1>1, <1>4, <2>1 DEF Bounded, Inhabited, Done
  <2> QED
    BY <1>1, <1>3, <2>1, <2>4, <2>5, DoneKeeps
<1>8. CASE step' = "list" /\ UNCHANGED enabled /\ GoOn
  BY <1>5, <1>8 DEF GoOn
<1>9. ASSUME step = "call", NEW c \in todo,
             enabled' = (IF ReferencedBy(c) # {} THEN enabled ELSE enabled \ {c}),
             failed' = (failed \/ ReferencedBy(c) # {}), Visited(c)
      PROVE  LabsInv'
  <2>1. ~failed /\ ~hurt => enabled \subseteq todo
    BY <1>1, <1>4, <1>9 DEF LoopKnows
  <2>2. UNCHANGED <<workshop, tls, phase, status, pc, hurt>> /\ todo' = todo \ {c}
    BY <1>9 DEF Visited, GoOn
  <2>3. enabled' \subseteq enabled /\ (~failed' /\ ~hurt' => enabled' \subseteq todo')
    BY <1>9, <2>1, <2>2
  <2> QED
    BY <1>5, <2>2, <2>3
<1>10. CASE UNCHANGED <<enabled, workshop, tls, phase, status, pc>> /\ hurt' = TRUE
  BY <1>5, <1>10
<1> QED
  BY <1>6, <1>7, <1>8, <1>9, <1>10 DEF DisableControllers

LEMMA UngroupServes ==
  ASSUME KnownWorkshops, TypeInv, LabsInv, DeleteGroup, UNCHANGED jobVars
  PROVE  LabsInv'
<1>1. Running /\ Script[pc].op = "ungroup" /\ UNCHANGED <<live, jobs>>
  BY DEF DeleteGroup, Now, jobVars
<1>2. /\ Script[pc] \in Statements
      /\ phase = "setup" => GoesUp(Script[pc], Past, tls)
      /\ phase = "teardown" => GoesDown(Script[pc], Absent(workshop) \cup Past)
  BY <1>1, AtWork
<1>3. phase = "teardown" /\ phase # "setup"
  BY <1>1, <1>2 DEF GoesUp, TypeInv, ProcessTyped
<1>4. Cleared /\ Inhabited /\ Bounded
  BY <1>1, <1>3 DEF LabsInv, Running
<1>5. PICK g \in Groups : Arg = {g}
  BY <1>1, <1>2, Says DEF Arg
<1>6. The = g
  BY <1>5, TheOne
<1> DEFINE S == Inside(g) \cup {g}
<1>7. S \subseteq Artefacts /\ Undoes(Script[pc]) = {Script[pc].op} \cup S
  BY <1>1, <1>5, Apart DEF Undoes, Arg, Inside
<1>8. /\ "disable" \in Past
      /\ \A h \in Groups : g \in Uses(h) => Inside(h) \cap there = {}
  <2>1. /\ "disable" \in Absent(workshop) \cup Past
        /\ \A h \in Groups : g \in Uses(h) => Inside(h) \subseteq Absent(workshop) \cup Past
    BY <1>1, <1>2, <1>3, <1>5 DEF GoesDown, Arg
  <2>2. "disable" \notin Absent(workshop)
    BY Apart DEF Absent
  <2>3. there \cap (Absent(workshop) \cup Past) = {}
    BY <1>4 DEF Cleared, Bounded, Absent
  <2> QED
    BY <2>1, <2>2, <2>3
<1>9. there \subseteq Artefacts /\ S \cap there \subseteq there
  BY DEF TypeInv, CanvasTyped
<1>10. ASSUME there' = there \ S, enabled' \subseteq enabled, Done \/ Lost
       PROVE  LabsInv'
  <2>1. \A h \in Groups : h \in S => \A x \in there' : h \notin Uses(x)
    <3>1. SUFFICES ASSUME NEW h \in Groups, h \in S, NEW x \in there', h \in Uses(x) PROVE FALSE
      OBVIOUS
    <3>2. x \in there /\ x \notin S /\ x \in Inside(h)
      BY <1>9, <1>10, <3>1 DEF Inside
    <3>3. h # g
      BY <3>2
    <3>4. g \in Uses(h)
      BY <3>1, <3>3 DEF Inside
    <3> QED
      BY <1>8, <3>2, <3>4
  <2>2. workshop' = workshop
    BY <1>10 DEF Done, Lost, Raise
  <2>3. Bounded' /\ Inhabited'
    <3> HIDE DEF S
    <3> QED
      BY <1>1, <1>10, <2>1, <2>2, LessKeeps
  <2>4. CASE Lost
    BY <2>3, <2>4, LostKeeps
  <2>5. CASE Done
    <3>1. there' \cap S = {} /\ there' \subseteq there
      BY <1>10
    <3>2. /\ there' \cap Past' = {}
          /\ \A m \in {"halt", "disable", "stop_all", "delete_jobs"} :
               m \in Past' => m \in Past \/ m = Script[pc].op
      <4> HIDE DEF S
      <4> QED
        BY <1>1, <1>3, <1>7, <2>5, <3>1, MarkedPast
    <3>3. hurt' = hurt
      BY <2>5 DEF Done
    <3>4. Cleared'
      BY <1>1, <1>4, <1>10, <3>2, <3>3 DEF Cleared, Active
    <3> QED
      BY <1>1, <1>3, <2>3, <2>5, <3>4, DoneKeeps
  <2> QED
    BY <1>10, <2>4, <2>5
<1>11. CASE g \notin there /\ Done /\ UNCHANGED <<there, enabled>>
  <2>1. S \cap there = {}
    BY <1>4, <1>11 DEF Inhabited, Inside
  <2> QED
    BY <1>10, <1>11, <2>1
<1>12. CASE \E c \in Inside(g) \cap enabled : Refused /\ UNCHANGED <<there, enabled>>
  <2>1. hurt /\ hurt' = hurt /\ Raise /\ workshop' = workshop
    BY <1>4, <1>8, <1>12 DEF Cleared, Refused, Raise
  <2>2. Bounded' /\ Inhabited'
    BY <1>1, <1>4, <1>12, <2>1 DEF Bounded, Inhabited
  <2> QED
    BY <2>1, <2>2, RaisedKeeps
<1> QED
  BY <1>6, <1>10, <1>11, <1>12 DEF DeleteGroup

LEMMA EndServes ==
  ASSUME KnownWorkshops, TypeInv, LabsInv, ProcessEnds, UNCHANGED <<there, jobVars, canvasVars>>
  PROVE  LabsInv'
<1>1. UNCHANGED <<workshop, tls, phase, pc, hurt, there, jobs, enabled, live>> /\ status = "running"
  BY DEF ProcessEnds, jobVars, canvasVars
<1>2. Past' = Past /\ Script' = Script
  BY <1>1, PastSame
<1>3. pc = Len(Script) + 1
  <2>1. Script \in Seq(Statements)
    <3> HIDE DEF Statements
    <3> QED
      BY ScriptsTyped DEF TypeInv, ProcessTyped, Script
  <2>2. Len(Script) \in Nat
    BY <2>1
  <2> QED
    BY <2>2 DEF TypeInv, ProcessTyped, ProcessEnds
<1>4. status' = "done" /\ pc' = Len(Script') + 1
  BY <1>1, <1>2, <1>3 DEF ProcessEnds
<1>5. Bounded' /\ Inhabited'
  BY <1>1 DEF LabsInv, Bounded, Inhabited
<1>6. phase = "setup" => Built'
  BY <1>1, <1>2 DEF LabsInv, Built
<1>7. phase = "teardown" => Cleared'
  BY <1>1, <1>2 DEF LabsInv, Cleared, Active
<1> QED
  BY <1>1, <1>4, <1>5, <1>6, <1>7 DEF LabsInv, Running, RaisedHurt

\* What a teardown that went through has left.
LEMMA Emptied ==
  ASSUME KnownWorkshops, TypeInv, LabsInv, phase = "teardown", status = "done"
  PROVE  /\ there \subseteq Residue /\ live = {}
         /\ \A j \in JobNames : ~Active(j)
         /\ workshop = "fraud" => \A j \in JobNames : jobs[j] = "none"
<1>1. TeardownServes(workshop, tls)
  BY LabsServe DEF TypeInv, ProcessTyped
<1>2. Script = TeardownOf(workshop)
  BY DEF Script
<1>3. PICK G : Leads("teardown", Script, Absent(workshop), G, tls) /\ Clears(workshop, G)
  BY <1>1, <1>2 DEF TeardownServes
<1>4. Bounded /\ Cleared /\ pc = Len(Script) + 1
  BY DEF LabsInv
<1>5. G = Absent(workshop) \cup Past
  BY <1>3, <1>4 DEF Leads, Total, Past
<1>6. \A m \in {"halt", "disable", "stop_all", "delete_jobs"} : m \in G => m \in Past
  BY <1>5, Apart DEF Absent
<1>7. there \cap G = {} /\ there \subseteq Artefacts /\ live \subseteq Processors
  BY <1>4, <1>5 DEF Bounded, Cleared, Absent, TypeInv, CanvasTyped
<1>8. there \subseteq Residue
  BY <1>3, <1>4, <1>7 DEF Clears, Bounded
<1>9. live = {}
  BY <1>3, <1>4, <1>6, <1>7 DEF Clears, Bounded, Cleared
<1>10. \A j \in JobNames : ~Active(j)
  <2>1. CASE "stop_all" \in G
    BY <1>4, <1>6, <2>1 DEF Cleared
  <2>2. CASE Makes(workshop) \cap JobNames = {}
    BY <1>4, <2>2 DEF Bounded, Active
  <2> QED
    BY <1>3, <2>1, <2>2 DEF Clears
<1>11. workshop = "fraud" => \A j \in JobNames : jobs[j] = "none"
  BY <1>3, <1>4, <1>6 DEF Clears, Cleared
<1> QED
  BY <1>8, <1>9, <1>10, <1>11

\* Where a process starts.
LEMMA StartsFresh ==
  ASSUME pc = 1, step = "list", status = "running", Bounded, Inhabited,
         phase = "setup" => there \subseteq Residue /\ live = {}
  PROVE  LabsInv
<1>1. Past = {}
  BY BeforeFirst DEF Past
<1>2. phase = "setup" => Built
  BY <1>1 DEF Built, Still
<1>3. Cleared
  BY <1>1 DEF Cleared
<1>4. LoopKnows(Script[pc])
  BY DEF LoopKnows
<1> QED
  BY <1>2, <1>3, <1>4 DEF LabsInv, RaisedHurt

LEMMA InitServes == ASSUME Init PROVE LabsInv
<1>1. Bounded /\ Inhabited
  BY DEF Init, Bounded, Inhabited
<1> QED
  BY <1>1, StartsFresh DEF Init

LEMMA TurnServes ==
  ASSUME KnownWorkshops, TypeInv, LabsInv, NextProcess
  PROVE  LabsInv'
<1>1. /\ pc' = 1 /\ step' = "list" /\ status' = "running" /\ UNCHANGED <<workshop, there, jobs,
           live>>
      /\ phase' = "setup" => phase = "teardown" /\ status = "done"
  BY DEF NextProcess, jobVars
<1>2. Bounded' /\ Inhabited'
  BY <1>1 DEF LabsInv, Bounded, Inhabited
<1>3. phase' = "setup" => there' \subseteq Residue /\ live' = {}
  BY <1>1, Emptied
<1>4. Past' = {}
  BY <1>1, BeforeFirst DEF Past
<1>5. phase' = "setup" => Built'
  BY <1>3, <1>4 DEF Built, Still
<1>6. Cleared'
  BY <1>4 DEF Cleared
<1>7. LoopKnows(Script[pc])'
  BY <1>1 DEF LoopKnows
<1> QED
  BY <1>1, <1>2, <1>5, <1>6, <1>7 DEF LabsInv, RaisedHurt

LEMMA StepServes ==
  ASSUME KnownWorkshops, TypeInv, LabsInv, [Next]_vars, ~RefusalIgnored
  PROVE  LabsInv'
<1>1. csa \in Nat
  BY CsaAssumption DEF TypeInv, JobsTyped
<1>2. CASE Calls
  BY <1>1, <1>2, MakeServes, FindServes, DropServes, DeleteServes DEF Calls
<1>3. CASE Jobs /\ UNCHANGED canvasVars
  BY <1>1, <1>3, SubmitServes, StopNamedServes, StopAllServes, DeleteAllServes DEF Jobs
<1>4. CASE Canvas /\ UNCHANGED jobVars
  BY <1>4, ControlServes, StartServes, RunServes, HaltServes, DisableServes,
    UngroupServes DEF Canvas
<1>5. CASE ProcessEnds /\ UNCHANGED <<there, jobVars, canvasVars>>
  BY <1>5, EndServes
<1>6. CASE CallIsLost
  BY <1>6, LostServes
<1>7. CASE (JobDies \/ Second) /\ UNCHANGED canvasVars
  BY <1>7, TimeServes
<1>8. CASE NextProcess
  BY <1>8, TurnServes
<1>9. CASE UNCHANGED vars
  <2>1. UNCHANGED <<workshop, tls, phase, status, pc, step, todo, hurt, there, jobs, target,
          enabled, live, failed>>
    BY <1>9 DEF vars, processVars, jobVars, canvasVars
  <2>2. Past' = Past /\ Script' = Script /\ Script'[pc'] = Script[pc]
    BY <2>1, PastSame
  <2>3. (Bounded' = Bounded) /\ (Inhabited' = Inhabited)
    BY <2>1 DEF Bounded, Inhabited
  <2>4. (Built' = Built) /\ (Cleared' = Cleared)
    BY <2>1, <2>2 DEF Built, Cleared, Active
  <2>5. LoopKnows(Script[pc])' = LoopKnows(Script[pc])
    BY <2>1, <2>2 DEF LoopKnows, Active
  <2>6. Running' = Running
    BY <2>1, <2>2 DEF Running
  <2> QED
    BY <2>1, <2>2, <2>3, <2>4, <2>5, <2>6 DEF LabsInv, RaisedHurt
<1> QED
  BY <1>2, <1>3, <1>4, <1>5, <1>6, <1>7, <1>8, <1>9 DEF Next, Work, Process

-----------------------------------------------------------------------------
(* The refusal that the teardown of ssb swallows.  While what it left is     *)
(* there, what LabsInv says of a teardown still holds up to the statement    *)
(* that may delete it; beyond that, and in a set-up, the schema is in the    *)
(* way of what it says.                                                      *)

LEMMA SsbUpAt ==
  /\ Len(SsbSetup) = 4 /\ SsbSetup[1] = Make("kafka") /\ SsbSetup[2] = Make("iot_enriched")
  /\ SsbSetup[3] = Make("schema_avro")
<1> DEFINE two == SsbKafkaLab \o SsbTableLab
<1>1. /\ SsbKafkaLab \in Seq(Statements) /\ Len(SsbKafkaLab) = 1 /\ SsbKafkaLab[1] = Make("kafka")
      /\ SsbTableLab \in Seq(Statements) /\ Len(SsbTableLab) = 1
      /\ SsbTableLab[1] = Make("iot_enriched")
      /\ SsbRegistryLab \in Seq(Statements) /\ Len(SsbRegistryLab) = 2
      /\ SsbRegistryLab[1] = Make("schema_avro")
  <2>1. {"kafka", "iot_enriched", "schema_avro", "sr"} \subseteq Artefacts
    BY DEF Artefacts, Providers, Tables
  <2> HIDE DEF Statements, Artefacts
  <2> QED
    BY <2>1, Typed DEF SsbKafkaLab, SsbTableLab, SsbRegistryLab
<1> HIDE DEF Statements
<1>2. /\ two \in Seq(Statements) /\ Len(two) = Len(SsbKafkaLab) + Len(SsbTableLab)
      /\ \A i \in 1..(Len(SsbKafkaLab) + Len(SsbTableLab)) :
           two[i] = IF i <= Len(SsbKafkaLab) THEN SsbKafkaLab[i] ELSE SsbTableLab[i - Len(SsbKafkaLab)]
  <2>1. SsbKafkaLab \in Seq(Statements) /\ SsbTableLab \in Seq(Statements)
    BY <1>1
  <2> QED
    BY <2>1, Joined
<1>3. SsbSetup = two \o SsbRegistryLab
  BY Zenon DEF SsbSetup
<1> HIDE DEF two
<1>4. /\ Len(SsbSetup) = Len(two) + Len(SsbRegistryLab)
      /\ \A i \in 1..(Len(two) + Len(SsbRegistryLab)) :
           SsbSetup[i] = IF i <= Len(two) THEN two[i] ELSE SsbRegistryLab[i - Len(two)]
  <2>1. two \in Seq(Statements) /\ SsbRegistryLab \in Seq(Statements)
    BY <1>1, <1>2
  <2> QED
    BY <1>3, <2>1, Joined
<1>5. Len(two) = 2 /\ two[1] = Make("kafka") /\ two[2] = Make("iot_enriched")
  BY <1>1, <1>2
<1> QED
  BY <1>1, <1>4, <1>5

LEMMA SsbDownAt ==
  /\ Len(SsbTeardown) = 4
  /\ SsbTeardown[1].op = "delete" /\ SsbTeardown[1].arg = {"sr"}
  /\ SsbTeardown[2].op = "try" /\ SsbTeardown[2].arg = {"schema_avro"}
  /\ SsbTeardown[3].op = "delete" /\ SsbTeardown[3].arg = {"iot_enriched"}
  /\ SsbTeardown[4].op = "delete" /\ SsbTeardown[4].arg = {"kafka"}
BY DEF SsbTeardown, DeleteEach, Try, Statement

\* Nothing that the set-up of ssb makes lies in a group, and it starts no job.
LEMMA SsbLoose ==
  /\ \A x \in Makes("ssb") \cup Residue : Uses(x) \cap Groups = {}
  /\ Makes("ssb") \cap JobNames = {} /\ Makes("ssb") \cap Processors = {}
  /\ "schema_avro" \notin Connections \cup Residue
  /\ \A w \in {"cdc", "fraud", "nifi", "dataviz"} : "schema_avro" \notin Makes(w)
<1>1. ASSUME NEW x \in {"kafka", "iot_enriched", "schema_avro", "sr", "bucket", "edge_bucket", "ssl"}
      PROVE  Uses(x) \cap Groups = {}
  BY <1>1 DEF Uses, Groups
<1>2. Makes("ssb") = {"kafka", "iot_enriched", "schema_avro", "sr"}
  BY DEF Makes
<1>3. ASSUME NEW w \in {"cdc", "fraud", "nifi", "dataviz"} PROVE "schema_avro" \notin Makes(w)
  BY <1>3 DEF Makes, CdcTables, SlotJobs
<1> QED
  BY <1>1, <1>2, <1>3 DEF Residue, JobNames, Processors, Connections

\* What a statement of ssb does.
LEMMA AtCall ==
  ASSUME KnownWorkshops, TypeInv, Running, Process
  PROVE  /\ Script[pc].op = "make" => MakeArtefact
         /\ Script[pc].op = "try" => DropArtefacts
         /\ Script[pc].op = "delete" => DeleteArtefacts
<1>1. CASE Calls
  BY <1>1 DEF Calls, MakeArtefact, FindArtefact, DropArtefacts, DeleteArtefacts, Now
<1>2. CASE Jobs
  BY <1>2 DEF Jobs, SubmitJob, StopNamed, StopAllJobs, DeleteAllJobs, Now
<1>3. CASE Canvas
  BY <1>3 DEF Canvas, CreateController, StartFlow, RunProcessors, StopCanvas, DisableControllers,
              DeleteGroup, Now
<1>4. ~ProcessEnds
  <2>1. pc \in 1..Len(Script) /\ Len(Script) \in Nat
    BY AtStatement DEF TypeInv
  <2> QED
    BY <2>1 DEF ProcessEnds
<1> QED
  BY <1>1, <1>2, <1>3, <1>4 DEF Process

LEMMA AtWorkRuns == ASSUME Process PROVE status = "running" /\ (Running \/ ProcessEnds)
BY DEF Process, Calls, MakeArtefact, FindArtefact, DropArtefacts, DeleteArtefacts, Jobs, SubmitJob,
       StopNamed, StopAllJobs, DeleteAllJobs, Canvas, CreateController, StartFlow, RunProcessors,
       StopCanvas, DisableControllers, DeleteGroup, ProcessEnds, Now, Running

\* A process stays with its workshop.
LEMMA StepFixed == ASSUME [Next]_vars PROVE workshop' = workshop
<1> USE DEF Now, Done, GoOn, Raise, Refused, Lost, List, Visited, LoopEnds
<1>1. CASE Calls
  BY <1>1 DEF Calls, MakeArtefact, FindArtefact, DropArtefacts, DeleteArtefacts
<1>2. ASSUME StopById PROVE UNCHANGED workshop
  BY <1>2 DEF StopById
<1>3. CASE Jobs
  BY <1>2, <1>3 DEF Jobs, SubmitJob, StopNamed, StopAllJobs, DeleteAllJobs
<1>4. CASE Canvas
  BY <1>4 DEF Canvas, CreateController, StartFlow, RunProcessors, StopCanvas, DisableControllers,
              DeleteGroup
<1>5. CASE ProcessEnds \/ RefusalIgnored \/ CallIsLost \/ NextProcess
  BY <1>5 DEF ProcessEnds, RefusalIgnored, CallIsLost, NextProcess
<1>6. CASE JobDies \/ Second
  BY <1>6 DEF JobDies, Second, processVars
<1>7. CASE UNCHANGED vars
  BY <1>7 DEF vars, processVars
<1> QED
  BY <1>1, <1>3, <1>4, <1>5, <1>6, <1>7 DEF Next, Work, Process

\* What it left is there, and a set-up or the rest of a teardown is under way, or
\* has come to its end.
Spoiled == spared # {} /\ (phase = "setup" \/ (status # "raised" /\ pc > 2))

SpoiledUp == status # "done" /\ pc <= 3

SpoiledDown ==
  /\ hurt /\ "sr" \notin there
  /\ pc > 3 => "iot_enriched" \notin there
  /\ pc > 4 => "kafka" \notin there
  /\ pc = 3 /\ step = "call" => {"iot_enriched"} \cap there \subseteq todo
  /\ pc = 4 /\ step = "call" => {"kafka"} \cap there \subseteq todo
  /\ status = "done" => pc = 5

SpoiledInv ==
  /\ Bounded
  /\ phase = "setup" => SpoiledUp
  /\ phase = "teardown" => SpoiledDown

SparedInv == spared \subseteq {"schema_avro"} /\ (spared # {} => workshop = "ssb")

Kept == SparedInv /\ (Spoiled => SpoiledInv) /\ (~Spoiled => LabsInv)

\* Nothing runs, and what is not a group lies in none.
LEMMA SsbCalm ==
  ASSUME TypeInv, Bounded, workshop = "ssb"
  PROVE  live = {} /\ Inhabited /\ \A j \in JobNames : jobs[j] = "none"
<1>1. live = {}
  BY SsbLoose DEF TypeInv, CanvasTyped, Bounded
<1>2. Inhabited
  BY SsbLoose DEF Bounded, Inhabited
<1>3. \A j \in JobNames : jobs[j] = "none"
  BY SsbLoose DEF Bounded
<1> QED
  BY <1>1, <1>2, <1>3

\* What the processes of ssb keep: the bounds are kept by what makes nothing else.
LEMMA SsbBounded ==
  ASSUME Bounded, workshop = "ssb", workshop' = "ssb", UNCHANGED <<jobs, live>>,
         there' \subseteq there \cup {"kafka", "iot_enriched", "schema_avro"}
  PROVE  Bounded' /\ Inhabited'
<1>1. {"kafka", "iot_enriched", "schema_avro"} \subseteq Makes("ssb")
  BY DEF Makes
<1>2. there' \subseteq Makes("ssb") \cup Residue
  BY <1>1 DEF Bounded
<1>3. Bounded'
  BY <1>2 DEF Bounded
<1>4. Inhabited'
  BY <1>2, SsbLoose DEF Inhabited
<1> QED
  BY <1>3, <1>4

LEMMA SsbTime ==
  ASSUME TypeInv, Bounded, workshop = "ssb", JobDies \/ Second
  PROVE  jobs' = jobs /\ UNCHANGED <<processVars, there>>
<1>1. \A j \in JobNames : jobs[j] = "none"
  BY SsbCalm
<1>2. ~JobDies
  BY <1>1 DEF JobDies
<1>3. Second
  BY <1>2
<1>4. jobs' = [j \in JobNames |-> jobs[j]]
  BY <1>1, <1>3 DEF Second
<1>5. jobs = [j \in JobNames |-> jobs[j]]
  BY DEF TypeInv, JobsTyped
<1> QED
  BY <1>3, <1>4, <1>5 DEF Second

\* A process that begins on what the last one left.
LEMMA SsbTurns ==
  ASSUME TypeInv, Bounded, SparedInv, workshop = "ssb", NextProcess, phase' = "teardown"
  PROVE  LabsInv'
<1>1. /\ pc' = 1 /\ step' = "list" /\ status' = "running"
      /\ UNCHANGED <<workshop, there, jobs, live>>
  BY DEF NextProcess, jobVars
<1>2. Bounded' /\ Inhabited'
  BY <1>1, SsbBounded
<1>3. Past' = {}
  BY <1>1, BeforeFirst DEF Past
<1>4. Cleared'
  BY <1>3 DEF Cleared
<1>5. LoopKnows(Script[pc])'
  BY <1>1 DEF LoopKnows
<1> QED
  BY <1>1, <1>2, <1>4, <1>5 DEF LabsInv, RaisedHurt

LEMMA KeptUp ==
  ASSUME SparedInv, spared # {}, spared' = spared, workshop' = workshop, phase' = "setup",
         Bounded', SpoiledUp'
  PROVE  Kept'
<1>1. SparedInv' /\ Spoiled'
  BY DEF SparedInv, Spoiled
<1>2. SpoiledInv'
  BY DEF SpoiledInv
<1> QED
  BY <1>1, <1>2 DEF Kept

LEMMA KeptDown ==
  ASSUME SparedInv, spared # {}, spared' = spared, workshop' = workshop, phase' = "teardown",
         Bounded', SpoiledDown', Spoiled'
  PROVE  Kept'
<1>1. SparedInv'
  BY DEF SparedInv
<1>2. SpoiledInv'
  BY DEF SpoiledInv
<1> QED
  BY <1>1, <1>2 DEF Kept

LEMMA KeptClear == ASSUME SparedInv', LabsInv', ~Spoiled' PROVE Kept'
BY DEF Kept

\* A set-up that meets the schema: it stops at it.
LEMMA SpoiledSetup ==
  ASSUME KnownWorkshops, TypeInv, Kept, Spoiled, phase = "setup", [Next]_vars
  PROVE  Kept' /\ (status = "running" => spared' = spared)
<1>1. /\ workshop = "ssb" /\ spared = {"schema_avro"} /\ "schema_avro" \in there
      /\ Bounded /\ SpoiledUp /\ SparedInv /\ spared # {}
  BY DEF Kept, Spoiled, SpoiledInv, SparedInv, TypeInv
<1>2. Script = SsbSetup
  BY <1>1 DEF Script, SetupOf
<1>3. Running => /\ pc \in {1, 2, 3} /\ Script[pc].op = "make"
                 /\ The \in {"kafka", "iot_enriched", "schema_avro"}
                 /\ pc = 3 => The = "schema_avro"
  <2>1. ASSUME Running PROVE pc \in {1, 2, 3}
    BY <1>1, <2>1, AtStatement DEF TypeInv, SpoiledUp
  <2>2. ASSUME NEW n \in {1, 2, 3}
        PROVE  /\ SsbSetup[n].op = "make"
               /\ SsbSetup[n].arg \in {{"kafka"}, {"iot_enriched"}, {"schema_avro"}}
               /\ n = 3 => SsbSetup[n].arg = {"schema_avro"}
    BY <2>2, SsbUpAt DEF Make, Statement
  <2>3. ASSUME Running PROVE \E x \in {"kafka", "iot_enriched", "schema_avro"} :
                               Arg = {x} /\ (pc = 3 => x = "schema_avro")
    BY <1>2, <2>1, <2>2, <2>3 DEF Arg
  <2> QED
    BY <1>2, <2>1, <2>2, <2>3, TheOne
<1>4. CASE Work
  <2>1. Running
    <3>1. Process
      BY <1>4 DEF Work
    <3>2. ~ProcessEnds
      BY <1>1, <1>2, SsbUpAt DEF ProcessEnds, SpoiledUp, TypeInv, ProcessTyped
    <3> QED
      BY <3>1, <3>2, AtWorkRuns
  <2>2. MakeArtefact
    BY <1>3, <1>4, <2>1, AtCall DEF Work
  <2>3. /\ there \subseteq there' /\ there' \subseteq there \cup {The}
        /\ UNCHANGED <<workshop, phase, jobs, live>>
    BY <2>2 DEF MakeArtefact, Refused, Done, Lost, Raise, jobVars, canvasVars
  <2>4. spared' = spared
    BY <1>1, <1>4, <2>3 DEF Work, TypeInv
  <2>5. Bounded'
    BY <1>1, <1>3, <2>1, <2>3, SsbBounded
  <2>6. SpoiledUp'
    <3>1. CASE pc = 3
      <4>1. Refused
        BY <1>1, <1>3, <2>1, <2>2, <3>1 DEF MakeArtefact
      <4> QED
        BY <1>1, <4>1 DEF Refused, Raise, SpoiledUp
    <3>2. CASE pc # 3
      <4>1. Done \/ Raise
        BY <2>2 DEF MakeArtefact, Refused, Lost
      <4> QED
        BY <1>1, <1>3, <2>1, <3>2, <4>1 DEF Done, Raise, SpoiledUp
    <3> QED
      BY <3>1, <3>2
  <2> QED
    BY <1>1, <2>3, <2>4, <2>5, <2>6, KeptUp
<1>5. ~RefusalIgnored
  BY <1>3 DEF RefusalIgnored, Now
<1>6. CASE CallIsLost /\ UNCHANGED <<processes, spared>>
  <2>1. UNCHANGED <<workshop, phase, pc, there, jobs, live, spared>> /\ status' = "raised"
    BY <1>6 DEF CallIsLost, Lost, Raise, jobVars
  <2>2. Bounded' /\ SpoiledUp'
    BY <1>1, <2>1, SsbBounded DEF SpoiledUp
  <2> QED
    BY <1>1, <2>1, <2>2, KeptUp
<1>7. CASE (JobDies \/ Second) /\ UNCHANGED <<canvasVars, processes, spared>>
  <2>1. UNCHANGED <<workshop, phase, status, pc, there, jobs, live, spared>>
    BY <1>1, <1>7, SsbTime DEF processVars, canvasVars
  <2>2. Bounded' /\ SpoiledUp'
    BY <1>1, <2>1, SsbBounded DEF SpoiledUp
  <2> QED
    BY <1>1, <2>1, <2>2, KeptUp
<1>8. CASE NextProcess /\ UNCHANGED spared
  <2>1. phase' = "teardown" /\ status # "running" /\ pc' = 1
    BY <1>8 DEF NextProcess
  <2>2. LabsInv'
    BY <1>1, <1>8, <2>1, SsbTurns
  <2>3. SparedInv' /\ ~Spoiled'
    BY <1>1, <1>8, <2>1 DEF NextProcess, SparedInv, Spoiled
  <2> QED
    BY <2>1, <2>2, <2>3, KeptClear
<1>9. CASE UNCHANGED vars
  <2>1. UNCHANGED <<workshop, phase, status, pc, there, jobs, live, spared>>
    BY <1>9 DEF vars, processVars, jobVars, canvasVars
  <2>2. Bounded' /\ SpoiledUp'
    BY <1>1, <2>1, SsbBounded DEF SpoiledUp
  <2> QED
    BY <1>1, <2>1, <2>2, KeptUp
<1> QED
  BY <1>4, <1>5, <1>6, <1>7, <1>8, <1>9 DEF Next

\* The rest of a teardown that left the schema: it goes on as any other.
LEMMA SpoiledTeardown ==
  ASSUME KnownWorkshops, TypeInv, Kept, Spoiled, phase = "teardown", [Next]_vars
  PROVE  Kept' /\ (status = "done" => spared' = spared)
<1>1. /\ workshop = "ssb" /\ spared = {"schema_avro"} /\ "schema_avro" \in there
      /\ Bounded /\ SpoiledDown /\ SparedInv /\ spared # {} /\ status # "raised" /\ pc > 2
  BY DEF Kept, Spoiled, SpoiledInv, SparedInv, TypeInv
<1>2. Script = SsbTeardown
  BY <1>1 DEF Script, TeardownOf
<1>3. pc \in {3, 4, 5} /\ Len(Script) = 4
  BY <1>1, <1>2, SsbDownAt DEF TypeInv, ProcessTyped
<1>4. Running => /\ pc \in {3, 4} /\ Script[pc].op = "delete"
                 /\ Arg = IF pc = 3 THEN {"iot_enriched"} ELSE {"kafka"}
  <2>1. ASSUME Running PROVE pc \in {3, 4}
    BY <1>3, <2>1 DEF Running
  <2> QED
    BY <1>2, <2>1, SsbDownAt DEF Arg
<1>5. ASSUME Raise, hurt', spared' = spared, UNCHANGED <<jobs, live>>, there' \subseteq there
      PROVE  Kept'
  <2>1. UNCHANGED <<workshop, phase>> /\ status' = "raised"
    BY <1>5 DEF Raise
  <2>2. Bounded' /\ Inhabited'
    BY <1>1, <1>5, <2>1, SsbBounded
  <2>3. LabsInv'
    BY <1>1, <2>1, <2>2, <1>5 DEF LabsInv, RaisedHurt, Running
  <2>4. SparedInv' /\ ~Spoiled'
    BY <1>1, <1>5, <2>1 DEF SparedInv, Spoiled
  <2> QED
    BY <2>3, <2>4, KeptClear
<1>6. CASE Work
  <2>1. CASE Running
    <3>1. DeleteArtefacts
      BY <1>4, <1>6, <2>1, AtCall DEF Work
    <3>2. /\ UNCHANGED <<workshop, jobs, live>> /\ phase' = "teardown" /\ there' \subseteq there
          /\ status = "running"
      BY <2>1, <3>1 DEF DeleteArtefacts, List, LoopEnds, GoOn, Done, Refused, Visited, Lost, Raise,
                        jobVars, canvasVars, Running
    <3>3. "schema_avro" \in there'
      <4>1. "schema_avro" \notin Connections
        BY SsbLoose
      <4>2. todo \subseteq Arg
        BY <1>4, <2>1 DEF TypeInv, ProcessTyped, Listed, Arg
      <4>3. "schema_avro" \notin todo
        BY <1>4, <2>1, <4>2
      <4> QED
        BY <1>1, <3>1, <4>1, <4>3 DEF DeleteArtefacts
    <3>4. spared' = spared
      BY <1>1, <1>6, <3>3 DEF Work
    <3>5. CASE Raise /\ hurt'
      BY <1>5, <3>2, <3>4, <3>5
    <3>6. CASE ~(Raise /\ hurt')
      <4>1. Bounded'
        BY <1>1, <3>2, SsbBounded
      <4>2. ~Lost /\ ~Refused
        <5>1. Lost => Raise /\ hurt'
          BY DEF Lost
        <5>2. Refused => Raise /\ hurt'
          BY <1>1 DEF Refused, SpoiledDown
        <5> QED
          BY <3>6, <5>1, <5>2
      <4>3. /\ hurt' = hurt /\ status' = "running"
            /\ \/ List(Arg \cap there) /\ there' = there
               \/ LoopEnds /\ there' = there
               \/ \E x \in todo : Visited(x) /\ x \notin there' /\ step = "call"
        <5>1. \/ List(Arg \cap there) /\ there' = there
              \/ LoopEnds /\ there' = there
              \/ \E x \in todo : Visited(x) /\ x \notin there' /\ step = "call"
          BY <3>1, <4>2 DEF DeleteArtefacts
        <5> QED
          BY <3>2, <5>1 DEF List, LoopEnds, Visited, Done, GoOn
      <4>4. SpoiledDown' /\ pc' > 2
        <5>1. CASE List(Arg \cap there) /\ there' = there
          BY <1>1, <1>3, <1>4, <2>1, <4>3, <5>1 DEF List, GoOn, SpoiledDown
        <5>2. CASE LoopEnds /\ there' = there
          BY <1>1, <1>3, <1>4, <2>1, <4>3, <5>2 DEF LoopEnds, Done, SpoiledDown
        <5>3. ASSUME NEW x \in todo, Visited(x), x \notin there', step = "call"
              PROVE  SpoiledDown' /\ pc' > 2
          BY <1>1, <1>3, <1>4, <2>1, <3>2, <4>3, <5>3 DEF Visited, GoOn, SpoiledDown
        <5> QED
          BY <4>3, <5>1, <5>2, <5>3
      <4>5. Spoiled'
        BY <1>1, <3>2, <3>4, <4>3, <4>4 DEF Spoiled
      <4> QED
        BY <1>1, <3>2, <3>4, <4>1, <4>4, <4>5, KeptDown
    <3> QED
      BY <3>2, <3>5, <3>6
  <2>2. CASE ~Running
    <3>1. ProcessEnds /\ UNCHANGED <<there, jobVars, canvasVars>> /\ status = "running"
      <4>1. Process
        BY <1>6 DEF Work
      <4>2. ~Calls /\ ~Jobs /\ ~Canvas
        BY <2>2 DEF Calls, MakeArtefact, FindArtefact, DropArtefacts, DeleteArtefacts, Jobs,
             SubmitJob, StopNamed, StopAllJobs, DeleteAllJobs, Canvas, CreateController, StartFlow,
             RunProcessors, StopCanvas, DisableControllers, DeleteGroup, Now
      <4> QED
        BY <4>1, <4>2, AtWorkRuns DEF Process
    <3>2. /\ UNCHANGED <<workshop, pc, step, todo, hurt, there, jobs, live>> /\ phase' = "teardown"
          /\ status' = "done" /\ pc > 4
      BY <1>3, <3>1 DEF ProcessEnds, jobVars, canvasVars
    <3>3. spared' = spared
      BY <1>1, <1>6, <3>2 DEF Work
    <3>4. Bounded' /\ SpoiledDown' /\ Spoiled'
      BY <1>1, <1>3, <3>2, <3>3, SsbBounded DEF SpoiledDown, Spoiled
    <3> QED
      BY <1>1, <3>1, <3>2, <3>3, <3>4, KeptDown
  <2> QED
    BY <2>1, <2>2
<1>7. ~RefusalIgnored
  BY <1>4 DEF RefusalIgnored, Now
<1>8. CASE CallIsLost /\ UNCHANGED <<processes, spared>>
  BY <1>5, <1>8 DEF CallIsLost, Lost, jobVars, Running
<1>9. ASSUME UNCHANGED <<workshop, phase, status, pc, step, todo, hurt, there, jobs, live, spared>>
      PROVE  Kept'
  <2>1. Bounded' /\ SpoiledDown' /\ Spoiled'
    BY <1>1, <1>9, SsbBounded DEF SpoiledDown, Spoiled
  <2> QED
    BY <1>1, <1>9, <2>1, KeptDown
<1>10. CASE (JobDies \/ Second) /\ UNCHANGED <<canvasVars, processes, spared>>
  <2>1. UNCHANGED <<workshop, phase, status, pc, step, todo, hurt, there, jobs, live, spared>>
    BY <1>1, <1>10, SsbTime DEF processVars, canvasVars
  <2> QED
    BY <1>9, <1>10, <2>1
<1>11. CASE NextProcess /\ UNCHANGED spared
  <2>1. /\ phase' = "setup" /\ status' = "running" /\ pc' = 1
        /\ UNCHANGED <<workshop, there, jobs, live>>
    <3>1. status = "done"
      BY <1>1, <1>11 DEF NextProcess, TypeInv, ProcessTyped
    <3> QED
      BY <1>11, <3>1 DEF NextProcess, jobVars
  <2>2. Bounded' /\ SpoiledUp'
    BY <1>1, <2>1, SsbBounded DEF SpoiledUp
  <2> QED
    BY <1>1, <1>11, <2>1, <2>2, KeptUp
<1>12. CASE UNCHANGED vars
  <2>1. UNCHANGED <<workshop, phase, status, pc, step, todo, hurt, there, jobs, live, spared>>
    BY <1>12 DEF vars, processVars, jobVars, canvasVars
  <2> QED
    BY <1>9, <2>1
<1> QED
  BY <1>6, <1>7, <1>8, <1>10, <1>11, <1>12 DEF Next

\* The refusal that is swallowed: the statement before has removed the provider.
LEMMA IgnoredTeardown ==
  ASSUME KnownWorkshops, TypeInv, RefusalIgnored
  PROVE  phase = "teardown"
BY AtWork DEF RefusalIgnored, Now, GoesUp, TypeInv, ProcessTyped

LEMMA IgnoredServes ==
  ASSUME KnownWorkshops, TypeInv, Kept, ~Spoiled, RefusalIgnored
  PROVE  Kept' /\ phase = "teardown" /\ status = "running"
<1>1. Running /\ Script[pc].op = "try" /\ LabsInv /\ SparedInv /\ Bounded /\ pc \in Nat
  BY AtStatement DEF RefusalIgnored, Now, Kept, LabsInv, TypeInv
<1>2. phase = "teardown"
  BY IgnoredTeardown
<1>3. Arg = {"schema_avro"}
  BY <1>1, <1>2, AtWork DEF GoesDown, Undoes, Arg
<1>4. "schema_avro" \in there
  BY <1>3 DEF RefusalIgnored
<1>5. workshop = "ssb"
  <2>1. workshop \in {"ssb", "cdc", "fraud", "nifi", "dataviz"}
    BY DEF TypeInv, ProcessTyped, KnownWorkshops
  <2> QED
    BY <1>1, <1>4, <2>1, SsbLoose DEF Bounded
<1>6. Script = SsbTeardown
  BY <1>2, <1>5 DEF Script, TeardownOf
<1>7. pc = 2
  <2>1. pc \in {1, 2, 3, 4}
    BY <1>1, <1>6, SsbDownAt DEF Running, TypeInv, ProcessTyped
  <2> QED
    BY <1>1, <1>6, <2>1, SsbDownAt
<1>8. "sr" \notin there
  <2>1. Script[1].op = "delete" /\ Script[1].arg = {"sr"}
    BY <1>6, SsbDownAt
  <2>2. "sr" \in Effect(phase, Script[1])
    BY <1>2, <2>1 DEF Effect, Undoes
  <2>3. 1 \in 1..(pc - 1)
    BY <1>7
  <2>4. "sr" \in Past
    BY <2>2, <2>3 DEF Past, Before
  <2> QED
    BY <1>1, <1>2, <2>4 DEF LabsInv, Running, Cleared
<1>9. /\ UNCHANGED <<workshop, phase, status, there, jobs, live>> /\ pc' = 3 /\ hurt' = TRUE
      /\ step' = "list" /\ spared' = {"schema_avro"}
  <2>1. /\ UNCHANGED <<workshop, phase, status, there, jobs, live>> /\ pc' = pc + 1 /\ hurt' = TRUE
        /\ step' = "list"
    BY DEF RefusalIgnored, jobVars, canvasVars
  <2>2. spared' = spared \cup {"schema_avro"}
    BY <1>3, <1>4 DEF RefusalIgnored
  <2>3. spared' = {"schema_avro"}
    BY <1>1, <2>2 DEF SparedInv
  <2>4. pc' = 3
    BY <1>7, <2>1
  <2> QED
    BY <2>1, <2>3, <2>4
<1>10. Bounded' /\ Spoiled' /\ SpoiledDown'
  <2>1. Bounded'
    BY <1>1, <1>5, <1>9, SsbBounded
  <2>2. Spoiled'
    BY <1>1, <1>9 DEF Spoiled, Running
  <2>3. SpoiledDown'
    BY <1>1, <1>8, <1>9 DEF SpoiledDown, Running
  <2> QED
    BY <2>1, <2>2, <2>3
<1>11. SparedInv' /\ SpoiledInv'
  BY <1>2, <1>5, <1>9, <1>10 DEF SparedInv, SpoiledInv
<1> QED
  BY <1>1, <1>2, <1>10, <1>11 DEF Kept, Running

\* Every other step keeps what LabsInv says, and spares nothing more.
LEMMA OthersServe ==
  ASSUME KnownWorkshops, TypeInv, Kept, ~Spoiled, [Next]_vars, ~RefusalIgnored, TypeInv'
  PROVE  Kept' /\ (phase = "setup" \/ status = "done" => spared = {} /\ spared' = {})
<1>1. LabsInv /\ SparedInv
  BY DEF Kept
<1>2. LabsInv'
  BY <1>1, StepServes
<1>3. spared' \subseteq spared /\ workshop' = workshop
  <2>1. spared' \subseteq spared
    BY DEF Next, Work, vars
  <2>2. UNCHANGED workshop
    BY StepFixed
  <2> QED
    BY <2>1, <2>2
<1>4. SparedInv'
  BY <1>1, <1>3 DEF SparedInv
<1>5. phase = "setup" => spared = {}
  BY DEF Spoiled
<1>6. status = "done" => spared = {}
  <2>1. ASSUME status = "done", phase = "teardown" PROVE there \subseteq Residue
    BY <1>1, <2>1, Emptied
  <2> QED
    BY <1>1, <1>5, <2>1, SsbLoose DEF SparedInv, TypeInv, ProcessTyped
<1>7. ASSUME spared # {} PROVE ~Spoiled'
  <2>1. /\ phase = "teardown" /\ (status = "raised" \/ (status = "running" /\ ~(pc > 2)))
        /\ workshop = "ssb"
    BY <1>1, <1>5, <1>6, <1>7 DEF Spoiled, SparedInv, TypeInv, ProcessTyped
  <2>2. CASE Work
    <3>1. Script = SsbTeardown /\ Len(Script) = 4 /\ pc \in {1, 2}
      BY <2>1, <2>2, SsbDownAt, AtWorkRuns DEF Script, TeardownOf, Work, TypeInv, ProcessTyped
    <3>2. Running
      BY <2>2, <3>1, AtWorkRuns DEF Running, Work
    <3>3. CASE pc = 1
      <4>1. DeleteArtefacts
        BY <2>2, <3>1, <3>2, <3>3, SsbDownAt, AtCall DEF Work
      <4>2. phase' = phase /\ (pc' = pc \/ pc' = pc + 1)
        BY <4>1 DEF DeleteArtefacts, List, LoopEnds, GoOn, Done, Refused, Visited, Lost, Raise
      <4> QED
        BY <2>1, <3>3, <4>2 DEF Spoiled
    <3>4. CASE pc = 2
      <4>1. DropArtefacts /\ Arg = {"schema_avro"}
        BY <2>2, <3>1, <3>2, <3>4, SsbDownAt, AtCall DEF Work, Arg
      <4>2. there' = there \ {"schema_avro"}
        BY <4>1 DEF DropArtefacts
      <4>3. spared' = {}
        BY <1>1, <2>2, <4>2 DEF Work, SparedInv
      <4> QED
        BY <4>3 DEF Spoiled
    <3> QED
      BY <3>1, <3>3, <3>4
  <2>3. CASE CallIsLost
    BY <2>1, <2>3 DEF CallIsLost, Lost, Raise, Spoiled
  <2>4. CASE JobDies \/ Second
    BY <2>1, <2>4 DEF JobDies, Second, processVars, Spoiled
  <2>5. CASE NextProcess
    BY <2>1, <2>5 DEF NextProcess, Spoiled
  <2>6. CASE UNCHANGED vars
    BY <2>1, <2>6 DEF vars, processVars, Spoiled
  <2> QED
    BY <2>2, <2>3, <2>4, <2>5, <2>6 DEF Next
<1>8. ~Spoiled'
  BY <1>3, <1>7 DEF Spoiled
<1> QED
  BY <1>2, <1>3, <1>4, <1>5, <1>6, <1>8, KeptClear

LEMMA StepKept ==
  ASSUME KnownWorkshops, TypeInv, Kept, [Next]_vars, TypeInv'
  PROVE  Kept'
<1>1. phase \in {"setup", "teardown"}
  BY DEF TypeInv, ProcessTyped
<1>2. CASE Spoiled
  BY <1>1, <1>2, SpoiledSetup, SpoiledTeardown
<1>3. CASE ~Spoiled
  BY <1>3, IgnoredServes, OthersServe
<1> QED
  BY <1>2, <1>3

LEMMA LabsServed ==
  ASSUME KnownWorkshops
  PROVE  Spec => [](TypeInv /\ Kept)
<1>1. ASSUME Init PROVE TypeInv /\ Kept
  <2>1. TypeInv /\ LabsInv
    BY <1>1, InitTyped, InitServes
  <2>2. spared = {}
    BY <1>1 DEF Init
  <2> QED
    BY <2>1, <2>2 DEF Kept, SparedInv, Spoiled
<1>2. TypeInv /\ Kept /\ [Next]_vars => (TypeInv /\ Kept)'
  BY StepTyped, StepKept
<1> QED
  BY <1>1, <1>2, PTL DEF Spec

LEMMA LossesRaise == ASSUME Kept PROVE OnlyLostCallsRaise
BY DEF Kept, Spoiled, LabsInv, RaisedHurt, OnlyLostCallsRaise

\* A set-up or a teardown in which no call was lost goes through: a set-up finds
\* what each statement needs and meets nothing in its way, and a teardown deletes
\* nothing that something still holds, whatever the processes before it came to.
\* The exception is named: a set-up of ssb while the schema is there whose
\* deletion was refused and the refusal swallowed.
THEOREM LossesOnlyRaise ==
  ASSUME KnownWorkshops
  PROVE  Spec => []OnlyLostCallsRaise
<1>1. Kept => OnlyLostCallsRaise
  BY LossesRaise
<1> QED
  BY <1>1, LabsServed, PTL

LEMMA LeftBare == ASSUME KnownWorkshops, TypeInv, Kept PROVE TeardownLeavesNothing
<1> SUFFICES ASSUME phase = "teardown", status = "done"
             PROVE  Bare /\ (spared # {} => hurt)
  BY DEF TeardownLeavesNothing
<1>1. SparedInv
  BY DEF Kept
<1>2. CASE Spoiled
  <2>1. /\ workshop = "ssb" /\ spared = {"schema_avro"} /\ Bounded /\ SpoiledDown
    BY <1>1, <1>2 DEF Kept, Spoiled, SpoiledInv, SparedInv
  <2>2. there \subseteq {"schema_avro"} \cup Residue
    BY <2>1 DEF SpoiledDown, Bounded, Makes
  <2>3. live = {} /\ \A j \in JobNames : jobs[j] = "none"
    BY <2>1, SsbCalm
  <2> QED
    BY <2>1, <2>2, <2>3 DEF SpoiledDown, Bare, Residue, Active
<1>3. CASE ~Spoiled
  <2>1. LabsInv
    BY <1>3 DEF Kept
  <2>2. /\ there \subseteq Residue /\ live = {}
        /\ \A j \in JobNames : ~Active(j)
        /\ workshop = "fraud" => \A j \in JobNames : jobs[j] = "none"
    BY <2>1, Emptied
  <2>3. spared = {}
    BY <1>1, <2>2, SsbLoose DEF SparedInv, TypeInv
  <2> QED
    BY <2>2, <2>3 DEF Bare, Residue
<1> QED
  BY <1>2, <1>3

\* A teardown that went through has removed all that the set-ups and the
\* teardowns before it left: nothing runs, and only the buckets, the disabled
\* SSL context and, if it swallowed a refusal, the schema of ssb are there.
THEOREM TeardownsClear ==
  ASSUME KnownWorkshops
  PROVE  Spec => []TeardownLeavesNothing
<1>1. TypeInv /\ Kept => TeardownLeavesNothing
  BY LeftBare
<1> QED
  BY <1>1, LabsServed, PTL
-----------------------------------------------------------------------------
(* A process as a whole: what the statements of a set-up make is there when *)
(* it has gone through, and each step is one of WorkshopLife or changes     *)
(* nothing that WorkshopLife knows.                                         *)

Contains(s, c) == \E n \in 1..Len(s) : s[n] = c

LEMMA ContainsJoined ==
  ASSUME NEW S, NEW s \in Seq(S), NEW t \in Seq(S), NEW c, Contains(s, c) \/ Contains(t, c)
  PROVE  Contains(s \o t, c)
<1>1. /\ Len(s \o t) = Len(s) + Len(t) /\ Len(s) \in Nat /\ Len(t) \in Nat
      /\ \A i \in 1..(Len(s) + Len(t)) :
           (s \o t)[i] = IF i <= Len(s) THEN s[i] ELSE t[i - Len(s)]
  BY Joined
<1>2. CASE Contains(s, c)
  <2>1. PICK n \in 1..Len(s) : s[n] = c
    BY <1>2 DEF Contains
  <2>2. n \in 1..(Len(s) + Len(t)) /\ (s \o t)[n] = c
    BY <1>1, <2>1
  <2> QED
    BY <1>1, <2>2 DEF Contains
<1>3. CASE Contains(t, c)
  <2>1. PICK n \in 1..Len(t) : t[n] = c
    BY <1>3 DEF Contains
  <2>2. n + Len(s) \in 1..(Len(s) + Len(t)) /\ ~(n + Len(s) <= Len(s)) /\ n + Len(s) - Len(s) = n
    BY <1>1, <2>1
  <2>3. (s \o t)[n + Len(s)] = c
    BY <1>1, <2>1, <2>2
  <2> QED
    BY <1>1, <2>2, <2>3 DEF Contains
<1> QED
  BY <1>2, <1>3

\* The labs of edge replace the connection that consume_conn stands for.
LEMMA NifiReplaces ==
  ASSUME NEW b
  PROVE  Contains(NifiSetup(b), DeleteEach({"consume_conn"}))
<1> DEFINE c == DeleteEach({"consume_conn"})
<1>1. /\ EdgeSimulatorLab \in Seq(Quiet) /\ EdgeFlowLab \in Seq(Quiet)
      /\ EdgeExpandLab \in Seq(Quiet) /\ NifiSchemaLab \in Seq(Quiet)
      /\ NifiFlowLab(b) \in Seq(Quiet) /\ NifiScoreLab \in Seq(Quiet)
  BY NifiParts
<1>2. Contains(EdgeExpandLab, c)
  <2>1. Len(EdgeExpandLab) = 5 /\ EdgeExpandLab[3] = c
    BY DEF EdgeExpandLab
  <2>2. 3 \in 1..Len(EdgeExpandLab)
    BY <2>1
  <2> QED
    BY <2>1, <2>2 DEF Contains
<1> HIDE DEF Quiet, c
<1>3. EdgeSimulatorLab \o EdgeFlowLab \in Seq(Quiet)
  BY <1>1, Closed
<1>4. Contains(EdgeSimulatorLab \o EdgeFlowLab \o EdgeExpandLab, c)
  BY <1>1, <1>2, <1>3, ContainsJoined
<1>5. Contains(EdgeSetup, c) /\ EdgeSetup \in Seq(Quiet)
  <2>1. EdgeSetup = EdgeSimulatorLab \o EdgeFlowLab \o EdgeExpandLab
    BY Zenon DEF EdgeSetup
  <2>2. EdgeSimulatorLab \o EdgeFlowLab \o EdgeExpandLab \in Seq(Quiet)
    BY <1>1, <1>3, Closed
  <2> QED
    BY <1>4, <2>1, <2>2, Zenon
<1>6. Contains(EdgeSetup \o NifiSchemaLab, c) /\ EdgeSetup \o NifiSchemaLab \in Seq(Quiet)
  BY <1>1, <1>5, ContainsJoined, Closed
<1>7. /\ Contains(EdgeSetup \o NifiSchemaLab \o NifiFlowLab(b), c)
      /\ EdgeSetup \o NifiSchemaLab \o NifiFlowLab(b) \in Seq(Quiet)
  BY <1>1, <1>6, ContainsJoined, Closed
<1>8. Contains(EdgeSetup \o NifiSchemaLab \o NifiFlowLab(b) \o NifiScoreLab, c)
  BY <1>1, <1>7, ContainsJoined
<1> QED
  BY <1>8, Zenon DEF NifiSetup, c

\* What a set-up that went through has made.
LEMMA Completed ==
  ASSUME KnownWorkshops, TypeInv, LabsInv, phase = "setup", status = "done"
  PROVE  Whole
<1>1. Script \in Seq(Statements)
  <2> HIDE DEF Statements
  <2> QED
    BY ScriptsTyped DEF TypeInv, ProcessTyped, Script
<1>2. Len(Script) \in Nat /\ DOMAIN Script = 1..Len(Script)
      /\ \A i \in DOMAIN Script : Script[i] \in Statements
  <2> HIDE DEF Statements
  <2> QED
    BY <1>1
<1>3. Built /\ pc = Len(Script) + 1
  BY DEF LabsInv
<1>4. Past = Total("setup", Script) /\ \A i \in DOMAIN Script : Brings(Script[i]) \subseteq Past
  <2>1. pc - 1 = Len(Script)
    BY <1>2, <1>3
  <2> QED
    BY <1>2, <1>3, <2>1 DEF Past, Total, Before, Effect
<1>5. Past \subseteq Makes(workshop)
  <2>1. SetupServes(workshop, tls)
    BY LabsServe DEF TypeInv, ProcessTyped
  <2>2. PICK L : Leads("setup", Script, {}, L, tls) /\ L \subseteq Makes(workshop)
    BY <2>1 DEF SetupServes, Script
  <2> QED
    BY <1>4, <2>2 DEF Leads
<1>6. "consume_conn" \in Past => "consume_conn" \in Named({"delete"})
  <2>1. ASSUME "consume_conn" \in Past PROVE workshop = "nifi"
    <3>1. workshop \in {"ssb", "cdc", "fraud", "nifi", "dataviz"}
      BY DEF TypeInv, ProcessTyped, KnownWorkshops
    <3> QED
      BY <1>5, <2>1, <3>1 DEF Makes, CdcTables, SlotJobs
  <2>2. ASSUME workshop = "nifi" PROVE "consume_conn" \in Named({"delete"})
    <3>1. Script = NifiSetup(tls)
      BY <2>2 DEF Script, SetupOf
    <3>2. PICK n \in 1..Len(Script) : Script[n] = DeleteEach({"consume_conn"})
      BY <3>1, NifiReplaces DEF Contains
    <3>3. Script[n].op = "delete" /\ Script[n].arg = {"consume_conn"}
      BY <3>2 DEF DeleteEach, Statement
    <3> QED
      BY <1>2, <3>2, <3>3 DEF Named
  <2> QED
    BY <2>1, <2>2
<1>7. ASSUME NEW x \in Named({"make", "find", "control"}) \ Named({"delete"})
      PROVE  x \in there
  <2>1. PICK i \in DOMAIN Script : x \in Script[i].arg /\ Script[i].op \in {"make", "find", "control"}
    BY DEF Named
  <2>2. x \in Past
    BY <1>4, <2>1 DEF Brings
  <2>3. x \notin JobNames
    <3>1. Script[i] \in Statements
      BY <1>2
    <3>2. x \in Artefacts
      BY <2>1, <3>1, OneMade
    <3> QED
      BY <3>2, Apart
  <2>4. x # "consume_conn"
    BY <1>6, <2>2
  <2> QED
    BY <1>3, <2>2, <2>3, <2>4 DEF Built, Still
<1>8. ASSUME NEW j \in Named({"submit"}) PROVE jobs[j] # "none"
  <2>1. PICK i \in DOMAIN Script : j \in Script[i].arg /\ Script[i].op = "submit"
    BY DEF Named
  <2>2. j \in Past
    BY <1>4, <2>1 DEF Brings
  <2>3. j \in JobNames
    <3>1. Script[i] \in Statements
      BY <1>2
    <3> QED
      BY <2>1, <3>1, Says
  <2> QED
    BY <1>3, <2>2, <2>3 DEF Built
<1> QED
  BY <1>7, <1>8 DEF Whole

\* Where WorkshopLife sees a process.
Stands ==
  IF status = "running"
  THEN IF phase = "setup" THEN IF spared = {} THEN "building" ELSE "doomed" ELSE "removing"
  ELSE IF status = "raised" THEN "partial"
  ELSE IF phase = "setup" THEN "ready" ELSE IF spared = {} THEN "clean" ELSE "soiled"

LEMMA LifeStands ==
  ASSUME KnownWorkshops, TypeInv, Kept
  PROVE  LifeState = Stands
<1>1. phase \in {"setup", "teardown"} /\ status \in {"running", "done", "raised"}
  BY DEF TypeInv, ProcessTyped
<1>2. ASSUME phase = "setup", status = "done" PROVE Whole
  <2>1. LabsInv
    BY <1>2 DEF Kept, SpoiledInv, SpoiledUp
  <2> QED
    BY <1>2, <2>1, Completed
<1>3. phase = "teardown" /\ status = "done" => Bare
  BY LeftBare DEF TeardownLeavesNothing
<1>4. CASE status = "running" /\ phase = "setup"
  <2>1. LifeState = IF spared = {} THEN "building" ELSE "doomed"
    BY <1>4, Zenon DEF LifeState
  <2> QED
    BY <1>4, <2>1 DEF Stands
<1>5. CASE status = "running" /\ phase = "teardown"
  <2>1. ~(status = "running" /\ phase = "setup") /\ phase # "setup"
    BY <1>5
  <2> QED
    BY <1>5, <2>1, Zenon DEF LifeState, Stands
<1>6. CASE status = "done" /\ phase = "setup"
  <2>1. status # "running" /\ status # "raised" /\ phase # "teardown" /\ Whole
    BY <1>2, <1>6
  <2> QED
    BY <1>6, <2>1, Zenon DEF LifeState, Stands
<1>7. CASE status = "done" /\ phase = "teardown"
  <2>1. status # "running" /\ status # "raised" /\ phase # "setup" /\ Bare
    BY <1>3, <1>7
  <2>2. LifeState = IF spared = {} THEN "clean" ELSE "soiled"
    BY <1>7, <2>1, Zenon DEF LifeState
  <2> QED
    BY <1>7, <2>1, <2>2 DEF Stands
<1>8. CASE status = "raised"
  <2>1. status # "running" /\ status # "done"
    BY <1>8
  <2> QED
    BY <1>8, <2>1, Zenon DEF LifeState, Stands
<1> QED
  BY <1>1, <1>4, <1>5, <1>6, <1>7, <1>8

\* A step of a process: it goes on; it raises; a call is lost, or refused and the
\* refusal swallowed, on which the teardown does not end.
Goes == UNCHANGED <<status, phase, hurt>>
Raises == status = "running" /\ Raise /\ (hurt' = hurt \/ hurt' = TRUE)
Swallows == status = "running" /\ phase = "teardown" /\ UNCHANGED <<status, phase>> /\ hurt' = TRUE

LEMMA CallSteps ==
  ASSUME Running, Done \/ GoOn \/ Refused \/ Lost
  PROVE  Goes \/ Raises
BY DEF Running, Done, GoOn, Refused, Lost, Goes, Raises

LEMMA CallsStep == ASSUME Calls PROVE Goes \/ Raises
<1>1. CASE MakeArtefact
  BY <1>1, CallSteps DEF MakeArtefact, Now
<1>2. CASE FindArtefact
  BY <1>2, CallSteps DEF FindArtefact, Now
<1>3. CASE DropArtefacts
  BY <1>3, CallSteps DEF DropArtefacts, Now
<1>4. CASE DeleteArtefacts
  BY <1>4, CallSteps DEF DeleteArtefacts, Now, List, LoopEnds, Visited
<1> QED
  BY <1>1, <1>2, <1>3, <1>4 DEF Calls

LEMMA JobsStep == ASSUME Jobs PROVE Goes \/ Raises
<1>1. ASSUME Running, StopById PROVE Goes \/ Raises
  BY <1>1, CallSteps DEF StopById
<1>2. CASE SubmitJob
  BY <1>2, CallSteps DEF SubmitJob, Now
<1>3. CASE StopNamed
  BY <1>3, CallSteps DEF StopNamed, Now
<1>4. CASE StopAllJobs
  BY <1>1, <1>4, CallSteps DEF StopAllJobs, Now, List, LoopEnds, Visited
<1>5. CASE DeleteAllJobs
  BY <1>1, <1>5, CallSteps DEF DeleteAllJobs, Now, List, LoopEnds, Visited
<1> QED
  BY <1>2, <1>3, <1>4, <1>5 DEF Jobs

LEMMA CanvasStep ==
  ASSUME KnownWorkshops, TypeInv, Canvas
  PROVE  Goes \/ Raises \/ Swallows
<1>1. CASE CreateController
  BY <1>1, CallSteps DEF CreateController, Now
<1>2. CASE StartFlow
  <2>1. Running /\ Script[pc].op = "start"
    BY <1>2 DEF StartFlow, Now
  <2>2. Done \/ UNCHANGED <<status, phase, hurt>>
    BY <1>2 DEF StartFlow
  <2> QED
    BY <2>1, <2>2, CallSteps DEF Goes
<1>3. CASE RunProcessors \/ StopCanvas
  BY <1>3, CallSteps DEF RunProcessors, StopCanvas, Now
<1>4. CASE DisableControllers
  <2>1. Running /\ Script[pc].op = "disable"
    BY <1>4 DEF DisableControllers, Now
  <2>2. phase = "teardown"
    <3>1. phase = "setup" => GoesUp(Script[pc], Past, tls)
      BY <2>1, AtWork
    <3> QED
      BY <2>1, <3>1 DEF GoesUp, TypeInv, ProcessTyped
  <2>3. Done \/ GoOn \/ (hurt' = TRUE /\ UNCHANGED <<phase, status>>)
    BY <1>4 DEF DisableControllers, List, LoopEnds, Visited
  <2> QED
    BY <2>1, <2>2, <2>3, CallSteps DEF Swallows, Running
<1>5. CASE DeleteGroup
  BY <1>5, CallSteps DEF DeleteGroup, Now
<1> QED
  BY <1>1, <1>2, <1>3, <1>4, <1>5 DEF Canvas

LEMMA StepKinds ==
  ASSUME KnownWorkshops, TypeInv, Kept, [Next]_vars
  PROVE  Goes \/ Raises \/ Swallows \/ ProcessEnds \/ NextProcess
<1>1. CASE Calls
  BY <1>1, CallsStep
<1>2. CASE Jobs
  BY <1>2, JobsStep
<1>3. CASE Canvas
  BY <1>3, CanvasStep
<1>4. CASE RefusalIgnored
  <2>1. status = "running" /\ UNCHANGED <<phase, status>> /\ hurt' = TRUE
    BY <1>4 DEF RefusalIgnored, Now, Running
  <2>2. phase = "teardown"
    BY <1>4, IgnoredTeardown
  <2> QED
    BY <2>1, <2>2 DEF Swallows
<1>5. CASE CallIsLost
  BY <1>5 DEF CallIsLost, Running, Lost, Raises
<1>6. CASE JobDies \/ Second
  BY <1>6 DEF JobDies, Second, processVars, Goes
<1>7. CASE UNCHANGED vars
  BY <1>7 DEF vars, processVars, Goes
<1> QED
  BY <1>1, <1>2, <1>3, <1>4, <1>5, <1>6, <1>7 DEF Next, Work, Process

LEMMA SparedSteps ==
  ASSUME KnownWorkshops, TypeInv, Kept, [Next]_vars, TypeInv', status # "raised",
         phase = "setup" \/ status = "done"
  PROVE  spared' = spared
<1>1. phase \in {"setup", "teardown"} /\ status \in {"running", "done"}
  BY DEF TypeInv, ProcessTyped
<1>2. CASE Spoiled
  <2>1. CASE phase = "setup"
    <3>1. status = "running"
      BY <1>1, <1>2, <2>1 DEF Kept, SpoiledInv, SpoiledUp
    <3> QED
      BY <1>2, <2>1, <3>1, SpoiledSetup
  <2>2. CASE phase = "teardown"
    BY <1>1, <1>2, <2>2, SpoiledTeardown
  <2> QED
    BY <1>1, <2>1, <2>2
<1>3. CASE ~Spoiled
  <2>1. ~RefusalIgnored
    BY <1>3, IgnoredServes
  <2> QED
    BY <1>3, <2>1, OthersServe
<1> QED
  BY <1>2, <1>3

LEMMA LifeStep ==
  ASSUME KnownWorkshops, TypeInv, Kept, LifeState = Stands, TypeInv', Kept', [Next]_vars,
         (LifeState = Stands)', OnlyLostCallsRaise', TeardownLeavesNothing'
  PROVE  [Life!Next]_Life!vars
<1>1. LifeState = Stands /\ LifeState' = Stands'
  OBVIOUS
<1>2. /\ phase \in {"setup", "teardown"} /\ status \in {"running", "done", "raised"}
      /\ hurt \in BOOLEAN /\ hurt' \in BOOLEAN
  BY DEF TypeInv, ProcessTyped
<1>3. status # "raised" /\ (phase = "setup" \/ status = "done") => spared' = spared
  BY SparedSteps
<1>4. CASE Goes
  BY <1>1, <1>2, <1>3, <1>4 DEF Goes, Stands, Life!vars
<1>5. CASE Raises
  <2>1. /\ LifeState \in {"building", "doomed", "removing"} /\ LifeState' = "partial"
        /\ hurt' = TRUE \/ hurt' = hurt
    BY <1>1, <1>2, <1>5 DEF Raises, Raise, Stands
  <2>2. CASE hurt' = TRUE
    BY <2>1, <2>2, Zenon DEF Life!Next, Life!CutShort
  <2>3. CASE hurt' # TRUE
    <3>1. phase = "setup" /\ status = "running" /\ spared' # {} /\ hurt' = hurt
      BY <1>2, <1>5, <2>1, <2>3 DEF Raises, Raise, OnlyLostCallsRaise
    <3>2. LifeState = "doomed"
      BY <1>1, <1>3, <3>1 DEF Stands
    <3> QED
      BY <2>1, <3>1, <3>2, Zenon DEF Life!Next, Life!Refuse
  <2> QED
    BY <2>2, <2>3
<1>6. CASE Swallows
  <2>1. LifeState = "removing" /\ LifeState' = "removing" /\ hurt' = TRUE
    BY <1>1, <1>6 DEF Swallows, Stands
  <2> QED
    BY <2>1, Zenon DEF Life!Next, Life!Swallow
<1>7. CASE ProcessEnds
  <2>1. hurt' = hurt /\ phase' = phase /\ status = "running" /\ status' = "done"
    BY <1>7 DEF ProcessEnds
  <2>2. CASE phase = "setup"
    <3>1. spared = {}
      BY <1>3, <2>1, <2>2 DEF Kept, Spoiled, SpoiledInv, SpoiledUp
    <3>2. LifeState = "building" /\ LifeState' = "ready"
      BY <1>1, <2>1, <2>2, <3>1 DEF Stands
    <3> QED
      BY <2>1, <3>2, Zenon DEF Life!Next, Life!Finish
  <2>3. CASE phase = "teardown"
    <3>1. LifeState = "removing" /\ LifeState' = IF spared' = {} THEN "clean" ELSE "soiled"
      BY <1>1, <2>1, <2>3 DEF Stands
    <3>2. spared' # {} => hurt
      BY <2>1, <2>3 DEF TeardownLeavesNothing
    <3>3. CASE spared' = {}
      BY <2>1, <3>1, <3>3, Zenon DEF Life!Next, Life!Finish
    <3>4. CASE spared' # {}
      <4>1. LifeState' = "soiled" /\ hurt
        BY <3>1, <3>2, <3>4
      <4> QED
        BY <2>1, <3>1, <4>1, Zenon DEF Life!Next, Life!Finish
    <3> QED
      BY <3>3, <3>4
  <2> QED
    BY <1>2, <2>2, <2>3
<1>8. CASE NextProcess
  <2>1. hurt' = FALSE
    BY <1>8 DEF NextProcess
  <2>2. CASE phase = "teardown" /\ status = "done"
    <3>1. \/ LifeState = "clean" /\ LifeState' = "building"
          \/ LifeState = "soiled" /\ LifeState' = "doomed"
      BY <1>1, <1>3, <1>8, <2>2 DEF NextProcess, Stands
    <3> QED
      BY <2>1, <3>1, Zenon DEF Life!Next, Life!SetUp
  <2>3. CASE ~(phase = "teardown" /\ status = "done")
    <3>1. LifeState \in {"ready", "partial"} /\ LifeState' = "removing"
      BY <1>1, <1>2, <1>8, <2>3 DEF NextProcess, Stands
    <3> QED
      BY <2>1, <3>1, Zenon DEF Life!Next, Life!TearDown
  <2> QED
    BY <2>2, <2>3
<1> QED
  BY <1>4, <1>5, <1>6, <1>7, <1>8, StepKinds

\* Set-ups and teardowns, call by call, are what the framework takes them for,
\* for any number of processes, of lost calls and of swallowed refusals.
THEOREM LifeImplemented ==
  ASSUME KnownWorkshops
  PROVE  Spec => LifeRefined
<1> DEFINE I == /\ TypeInv /\ Kept /\ LifeState = Stands
                /\ OnlyLostCallsRaise /\ TeardownLeavesNothing
<1>1. TypeInv /\ Kept => I
  BY LifeStands, LossesRaise, LeftBare
<1>2. Init => Life!Init
  <2>1. ASSUME Init PROVE Life!Init
    <3>1. TypeInv /\ Kept
      BY <2>1, InitTyped, InitServes DEF Init, Kept, SparedInv, Spoiled
    <3>2. LifeState = "building" /\ hurt = FALSE
      BY <2>1, <3>1, LifeStands DEF Init, Stands
    <3> QED
      BY <3>2 DEF Life!Init
  <2> QED
    BY <2>1
<1>3. I /\ I' /\ [Next]_vars => [Life!Next]_Life!vars
  BY LifeStep
<1> QED
  BY <1>1, <1>2, <1>3, LabsServed, PTL DEF Spec, LifeRefined, Life!Spec
=============================================================================
