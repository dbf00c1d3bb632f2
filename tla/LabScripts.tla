------------------------------ MODULE LabScripts ------------------------------
(***************************************************************************)
(* The statements of the workshops that change SSB, NiFi, its registry,     *)
(* EFM, Schema Registry or DataViz, in the order of the code.  A statement  *)
(* is a call of one of the clients of labs/utils; SsbClient and NifiClient  *)
(* say what the calls do.  Of the flows of nifi and fraud one component of  *)
(* each kind stands for those that refer to the same others; updates of     *)
(* what exists and new versions of a flow are left out.                     *)
(***************************************************************************)
EXTENDS Naturals, Sequences

Providers == {"kafka", "kudu", "sr"}
Tables == {"iot_enriched", "transactions_cdc", "trans_replica", "trans_changelog", "fraud_tables"}
Udfs == {"havetokm", "to_kudu_string"}
Groups == {"sensor_pg", "fraud_pg", "generators_pg"}
Controllers == {"ssl", "registry", "reader", "lookup", "http_map",
                "keytab_svc", "sr_svc", "json_reader_svc", "json_reader_with_schema_svc",
                "rest_lookup_svc"}
Processors == {"score", "publish", "generate", "handle", "gen_data", "pub_kafka", "predict",
               "write_kudu"}
Connections == {"flattened", "kafka_failures", "response", "gateway", "pub_failures", "scored"}
EdgeProcessors == {"consume_mqtt", "extract_proc", "filter_proc"}
EdgeConnections == {"consume_conn", "extracted", "valid"}
Artefacts == Providers \cup Tables \cup Udfs \cup Groups \cup Controllers \cup Processors
             \cup Connections \cup EdgeProcessors \cup EdgeConnections
             \cup {"schema", "schema_avro", "edge_bucket", "bucket", "reg_client", "flow", "params",
                  "from_gw", "temp_funnel", "nifi_rpg", "viz_connection", "viz_dataset"}
JobNames == {"lab3", "lab4", "lab5", "fraud_detection_job"}

\* What a call must find before it can make x: ids it was given, names it looks up.
Uses(x) ==
  CASE x = "sr"             -> {"kafka", "schema_avro"}
    [] x \in {"iot_enriched", "fraud_tables"} -> {"kafka"}
    [] x = "flow"           -> {"bucket", "reg_client"}
    [] x = "registry"       -> {"fraud_pg", "ssl"}
    [] x = "reader"         -> {"fraud_pg", "registry"}
    [] x = "lookup"         -> {"fraud_pg", "reader"}
    [] x = "generators_pg"  -> {"fraud_pg", "params"}
    [] x = "http_map"       -> {"generators_pg"}
    [] x = "score"          -> {"fraud_pg", "reader", "lookup"}
    [] x = "publish"        -> {"fraud_pg", "reader", "ssl"}
    [] x = "generate"       -> {"generators_pg"}
    [] x = "handle"         -> {"generators_pg", "http_map"}
    [] x = "flattened"      -> {"score", "publish"}
    [] x = "kafka_failures" -> {"publish"}
    [] x = "response"       -> {"handle"}
    [] x = "viz_dataset"    -> {"viz_connection"}
    [] x = "keytab_svc"     -> {"sensor_pg"}
    [] x = "sr_svc"         -> {"sensor_pg", "keytab_svc", "ssl"}
    [] x \in {"json_reader_svc", "json_reader_with_schema_svc"} -> {"sensor_pg", "sr_svc"}
    [] x = "rest_lookup_svc" -> {"sensor_pg", "json_reader_svc", "ssl"}
    [] x = "pub_kafka"      -> {"sensor_pg", "json_reader_svc", "keytab_svc", "ssl"}
    [] x = "predict"        -> {"sensor_pg", "json_reader_svc", "json_reader_with_schema_svc",
                                "rest_lookup_svc"}
    [] x = "write_kudu"     -> {"sensor_pg", "json_reader_with_schema_svc", "keytab_svc"}
    [] x = "gateway"        -> {"from_gw", "temp_funnel"}
    [] x = "pub_failures"   -> {"pub_kafka"}
    [] x = "scored"         -> {"predict", "write_kudu"}
    [] x = "consume_conn"   -> {"consume_mqtt", "nifi_rpg", "from_gw"}
    [] x = "extracted"      -> {"consume_mqtt", "extract_proc"}
    [] x = "valid"          -> {"extract_proc", "filter_proc", "nifi_rpg", "from_gw"}
    [] OTHER                -> {}

\* What the services do not delete while something else holds it: "some Catalog
\* providers can depend on" Kafka, a versioned group on its registry client, a
\* connection on its ends.
Holds == {<<"kudu", "kafka">>, <<"sr", "kafka">>, <<"viz_dataset", "viz_connection">>}
         \cup {"fraud_pg", "sensor_pg"} \X {"reg_client"}
         \cup {"gateway"} \X {"from_gw", "temp_funnel"}
         \cup {p \in EdgeConnections \X (EdgeProcessors \cup {"nifi_rpg"}) : p[2] \in Uses(p[1])}

Statement(op, arg, wait) == [op |-> op, arg |-> arg, wait |-> wait]
Make(x) == Statement("make", {x}, 0)
Find(x) == Statement("find", {x}, 0)
Control(c) == Statement("control", {c}, 0)
Submit(j) == Statement("submit", {j}, 0)
Stop(j, wait) == Statement("stop", {j}, wait)
Drop(S) == Statement("drop", S, 0)
Try(S) == Statement("try", S, 0)  \* a deletion whose refusal is swallowed
DeleteEach(S) == Statement("delete", S, 0)
Plain(op) == Statement(op, {}, 0)
Run(S) == Statement("run", S, 0)

-----------------------------------------------------------------------------
SsbKafkaLab == <<Make("kafka")>>
SsbTableLab == <<Make("iot_enriched")>>
SsbRegistryLab == <<Make("schema_avro"), Make("sr")>>
SsbSetup == SsbKafkaLab \o SsbTableLab \o SsbRegistryLab
SsbTeardown == <<DeleteEach({"sr"}), Try({"schema_avro"}), DeleteEach({"iot_enriched"}),
                 DeleteEach({"kafka"})>>

\* DROP TABLE IF EXISTS.
CdcTables == {"transactions_cdc", "trans_replica", "trans_changelog"}
CdcBefore == <<Drop(CdcTables)>>
CdcTableLab == <<Make("transactions_cdc")>>
CdcCaptureLab == <<Submit("lab3"), Stop("lab3", 3)>>
CdcReplicateLab == <<Make("trans_replica"), Submit("lab4"), Stop("lab4", 3)>>
CdcChangelogLab == <<Make("trans_changelog"), Submit("lab5"), Stop("lab5", 0)>>
\* Mutant: the hook comes after the labs.
CdcSetupHookLast == CdcTableLab \o CdcCaptureLab \o CdcReplicateLab \o CdcChangelogLab \o CdcBefore

CdcSetup == CdcBefore \o CdcTableLab \o CdcCaptureLab \o CdcReplicateLab \o CdcChangelogLab

\* Mutant: the jobs are not stopped first.
CdcTeardownRunning == <<Drop(CdcTables)>>

CdcTeardown == <<Statement("stop_all", {}, 0), Drop(CdcTables)>>

-----------------------------------------------------------------------------
FraudSchemaLab == <<Make("schema")>>
\* Lab 4: the bucket, the registry client, the group and its flow.
FraudFlowRegistry == <<Find("bucket"), Make("reg_client"), Make("fraud_pg"), Make("flow")>>
FraudParameters == <<Make("params")>>
FraudControllers(tls) ==
  (IF tls THEN <<Control("ssl")>> ELSE <<>>)
  \o <<Control("registry"), Control("reader"), Control("lookup")>>
FraudProcessors ==
  <<Make("score"), Make("publish"), Make("flattened"), Make("kafka_failures")>>
FraudGenerators ==
  <<Make("generators_pg"), Control("http_map"), Make("generate"), Make("handle"),
    Make("response")>>
FraudStart == <<Plain("start")>>
FraudNifiLab(tls) ==
  FraudFlowRegistry \o FraudParameters \o FraudControllers(tls) \o FraudProcessors
  \o FraudGenerators \o FraudStart

FraudKafkaLab == <<Make("kafka")>>
FraudKuduLab == <<Make("kudu")>>
\* CREATE TABLE after a DROP TABLE IF EXISTS, in one call.
FraudTablesLab == <<Find("fraud_tables")>>
FraudUdfLab == <<Make("havetokm"), Make("to_kudu_string")>>
FraudJobLab == <<Submit("fraud_detection_job")>>
FraudConnectionLab == <<Make("viz_connection")>>
FraudVizLab == <<Make("viz_dataset")>>
FraudSetup(tls) ==
  FraudSchemaLab \o FraudNifiLab(tls) \o FraudKafkaLab \o FraudKuduLab \o FraudTablesLab \o FraudUdfLab
  \o FraudJobLab \o FraudConnectionLab \o FraudVizLab

\* nf.delete_all(root_pg): the listings reach down into the groups, which come
\* innermost first; the first group's own delete_all removes the contexts.
DeleteAll == <<Plain("halt"), DeleteEach(Connections), DeleteEach({"from_gw"}),
               DeleteEach({"temp_funnel"}), DeleteEach(Processors),
               DeleteEach({"params"}), Statement("ungroup", {"generators_pg"}, 0),
               Statement("ungroup", {"fraud_pg"}, 0), Statement("ungroup", {"sensor_pg"}, 0)>>
\* What follows it: the schemas, the registry client, the flows.
DeleteRegistered == <<DeleteEach({"schema", "schema_avro"}), DeleteEach({"reg_client"}),
                      DeleteEach({"flow"})>>

FraudTeardown ==
  <<DeleteEach({"viz_dataset"}), DeleteEach({"viz_connection"}), Plain("halt"), Plain("disable"),
    Statement("stop_all", {}, 3), Drop({"fraud_tables"}), Plain("delete_jobs"),
    DeleteEach(Udfs), DeleteEach(Providers)>>
  \o DeleteAll \o DeleteRegistered

-----------------------------------------------------------------------------
EdgeSimulatorLab == <<Make("gen_data"), Run({"gen_data"})>>
EdgeFlowLab == <<Make("from_gw"), Make("temp_funnel"), Make("gateway"), Make("consume_mqtt"),
                 Make("nifi_rpg"), Make("consume_conn"), Find("edge_bucket")>>
EdgeExpandLab == <<Make("extract_proc"), Make("filter_proc"), DeleteEach({"consume_conn"}),
                   Make("extracted"), Make("valid")>>
EdgeSetup == EdgeSimulatorLab \o EdgeFlowLab \o EdgeExpandLab

NifiSchemaLab == <<Make("schema")>>
NifiFlowLab(tls) ==
  <<Find("bucket"), Make("reg_client"), Make("sensor_pg"), Make("flow")>>
  \o (IF tls THEN <<Control("ssl"), Control("keytab_svc")>> ELSE <<>>)
  \o <<Control("sr_svc"), Control("json_reader_svc"), Make("pub_kafka"), Make("pub_failures"),
       Run({"gen_data", "pub_kafka"})>>
NifiScoreLab ==
  <<Control("json_reader_with_schema_svc"), Control("rest_lookup_svc"), Make("predict"),
    Make("write_kudu"), Make("scored"), Run({"gen_data", "pub_kafka", "predict", "write_kudu"})>>
\* The labs of edge come first: nifi takes its context from them.
NifiSetup(tls) == EdgeSetup \o NifiSchemaLab \o NifiFlowLab(tls) \o NifiScoreLab

\* efm.delete_all.
DeleteEdgeFlow == <<DeleteEach(EdgeConnections), DeleteEach({"nifi_rpg"}), DeleteEach(EdgeProcessors)>>
EdgeTeardown == <<Plain("halt"), Plain("disable")>> \o DeleteAll \o DeleteEdgeFlow \o DeleteRegistered
\* The same statements, then edge's own.
NifiTeardown == EdgeTeardown \o EdgeTeardown

DatavizSetup == <<Make("viz_connection"), Make("viz_dataset")>>
DatavizTeardown == <<DeleteEach({"viz_dataset"}), DeleteEach({"viz_connection"})>>

SetupOf(w, tls) == CASE w = "ssb" -> SsbSetup [] w = "cdc" -> CdcSetup
                     [] w = "fraud" -> FraudSetup(tls) [] w = "nifi" -> NifiSetup(tls)
                     [] w = "dataviz" -> DatavizSetup
TeardownOf(w) == CASE w = "ssb" -> SsbTeardown [] w = "cdc" -> CdcTeardown
                   [] w = "fraud" -> FraudTeardown [] w = "nifi" -> NifiTeardown
                   [] w = "dataviz" -> DatavizTeardown
=============================================================================
