------------------------------ MODULE Workshops ------------------------------
(***************************************************************************)
(* The workshops of resources/labs, as data: the prerequisites of each,     *)
(* what each of its labs leaves on the cluster (its artefacts, in the       *)
(* order the lab creates them), what a lab takes from earlier labs, and     *)
(* what the teardown removes, one set per statement.  LabSession gives      *)
(* these tables their meaning.                                              *)
(*                                                                          *)
(* An artefact is a named thing that outlives the process: a process group  *)
(* on the NiFi canvas, a schema, a data provider, a table, a connection.    *)
(* What a lab builds inside one process group is one artefact; model API    *)
(* keys and the CDC jobs, started and stopped inside one lab, are left out. *)
(***************************************************************************)
EXTENDS Naturals, Sequences, TLC

WorkshopIds == {"base", "edge", "nifi", "ssb", "cdc", "fraud", "dataviz"}

\* Every prereqs() names whole workshops: _setup_prereqs turns a string into
\* the pair of the workshop and lab 99.
Whole(w) == [workshop |-> w, lab |-> 99]

PrereqsOf == "base" :> <<Whole("nifi")>> @@ "edge" :> <<>> @@
             "nifi" :> <<Whole("edge")>> @@ "ssb" :> <<Whole("nifi")>> @@
             "cdc" :> <<>> @@ "fraud" :> <<>> @@
             "dataviz" :> <<Whole("nifi")>>

\* What is_runnable() asks of the cluster: CDSW, CDSW 1.10 or later (which
\* brings DataViz), SSB of CSA 1.6 or later, SSB of CSA 1.7 or later.
RequiredBy == [w \in WorkshopIds |->
                 CASE w = "dataviz"      -> {"dataviz"}
                   [] w \in {"ssb", "cdc"} -> {"csa16"}
                   [] w = "fraud"        -> {"cdsw", "csa17"}
                   [] OTHER              -> {}]

-----------------------------------------------------------------------------
\* Everything below the NiFi root process group, and the parameter contexts:
\* nf.delete_all(root_pg) empties the whole canvas, whoever drew on it.
Canvas == {"edge_simulator", "gateway_port", "sensor_pg", "sensor_scoring",
           "fraud_pg", "fraud_params"}

\* schreg.delete_all_schemas().
Schemas == {"schema_sensor", "schema_avro", "schema_transactions"}

EdgeLabs ==
  1 :> <<"edge_simulator">> @@
  2 :> <<"gateway_port", "efm_flow", "bucket_iot">> @@
  3 :> <<"efm_filters">>

EdgeTeardown ==
  <<Canvas, {"efm_flow", "efm_filters"}, Schemas, {"reg_client"},
    {"flow_sensor"}, {"kudu_sensors"}>>

NifiLabs ==
  1 :> <<"schema_sensor">> @@
  2 :> <<"bucket_sensor", "reg_client", "sensor_pg", "flow_sensor">> @@
  4 :> <<"kudu_sensors", "sensor_scoring">>

\* The same statements as EdgeTeardown (and the model API keys).
NifiTeardown ==
  <<Canvas, {"efm_flow", "efm_filters"}, Schemas, {"reg_client"},
    {"flow_sensor"}, {"kudu_sensors"}>>

SsbLabs ==
  1 :> <<"ssb_kafka">> @@
  2 :> <<"ssb_iot_enriched">> @@
  3 :> <<"schema_avro", "ssb_sr">>

SsbTeardown == <<{"ssb_sr"}, {"schema_avro"}, {"ssb_iot_enriched"}, {"ssb_kafka"}>>

CdcTables == {"ssb_transactions_cdc", "ssb_trans_replica", "ssb_trans_changelog"}

CdcLabs ==
  1 :> <<"pg_transactions">> @@
  2 :> <<"ssb_transactions_cdc">> @@
  3 :> <<>> @@
  4 :> <<"pg_trans_replica", "ssb_trans_replica">> @@
  5 :> <<"ssb_trans_changelog">>

\* stop_all_jobs() stops every running job of SSB, the fraud job included.
CdcTeardown == <<{"fraud_job"}, CdcTables, {"pg_transactions", "pg_trans_replica"}>>

FraudLabs ==
  1 :> <<"schema_transactions">> @@
  2 :> <<"topic_transactions">> @@
  3 :> <<"kudu_fraud">> @@
  4 :> <<"bucket_fraud", "reg_client", "fraud_pg", "flow_fraud", "fraud_params">> @@
  5 :> <<"ssb_kafka">> @@
  6 :> <<"ssb_kudu">> @@
  7 :> <<"ssb_fraud_tables">> @@
  8 :> <<"ssb_udfs">> @@
  9 :> <<"fraud_job">> @@
  10 :> <<"viz_impala">> @@
  11 :> <<"viz_fraud">>

\* kudu.drop_table() drops "sensors", which this workshop did not create.
FraudTeardown ==
  <<{"viz_fraud"}, {"viz_impala"}, {"fraud_job"}, {"ssb_fraud_tables"},
    {"ssb_udfs"}, {"ssb_kudu", "ssb_sr"}, {"ssb_kafka"}, Canvas, Schemas,
    {"reg_client"}, {"flow_fraud"}, {"kudu_sensors"}>>

DatavizLabs ==
  2 :> <<"viz_local_impala">> @@
  3 :> <<"viz_dataset">> @@
  4 :> <<"viz_table">> @@
  5 :> <<"viz_scatter">>

\* The visuals go with the dataset they are drawn from.
DatavizTeardown == <<{"viz_dataset", "viz_table", "viz_scatter"}, {"viz_local_impala"}>>

LabsOf == "base" :> <<>> @@ "edge" :> EdgeLabs @@ "nifi" :> NifiLabs @@
          "ssb" :> SsbLabs @@ "cdc" :> CdcLabs @@ "fraud" :> FraudLabs @@
          "dataviz" :> DatavizLabs

TeardownOf == "base" :> <<>> @@ "edge" :> EdgeTeardown @@ "nifi" :> NifiTeardown @@
              "ssb" :> SsbTeardown @@ "cdc" :> CdcTeardown @@
              "fraud" :> FraudTeardown @@ "dataviz" :> DatavizTeardown

-----------------------------------------------------------------------------
\* The hooks around the labs, again one set of removed artefacts per
\* statement: {} is a statement that removes nothing but may fail.
BeforeHooks == [w \in WorkshopIds |->
                  CASE w \in {"edge", "nifi"} -> <<{}, {}>>  \* set_environment, get_flow
                    [] w = "ssb"              -> <<{}>>      \* upload_keytab
                    [] w = "fraud"            -> <<{}, {}>>
                    [] w = "cdc"              -> <<{}, CdcTables>>
                    [] OTHER                  -> <<>>]

AfterHooks == [w \in WorkshopIds |-> IF w \in {"edge", "nifi"} THEN <<{}>> ELSE <<>>]

\* What a lab reads of earlier labs of the same set-up: objects they put in
\* self.context (from_gw, consume_conn, sensor_pg, sr_svc), names it looks up
\* ([0] of an empty list when missing), data it samples.
NeedsOf(w, n) ==
  CASE <<w, n>> = <<"edge", 3>>    -> {"gateway_port", "efm_flow"}
    [] <<w, n>> = <<"nifi", 2>>    -> {"gateway_port"}
    [] <<w, n>> = <<"nifi", 4>>    -> {"sensor_pg", "reg_client", "flow_sensor"}
    [] <<w, n>> = <<"ssb", 2>>     -> {"ssb_kafka", "sensor_scoring"}
    [] <<w, n>> = <<"ssb", 3>>     -> {"ssb_kafka"}
    [] <<w, n>> \in {"cdc"} \X {3, 4, 5} -> {"pg_transactions", "ssb_transactions_cdc"}
    [] <<w, n>> = <<"fraud", 7>>   -> {"ssb_kafka", "ssb_kudu"}
    [] <<w, n>> = <<"fraud", 9>>   -> {"ssb_fraud_tables", "ssb_udfs"}
    [] <<w, n>> = <<"fraud", 11>>  -> {"viz_impala"}
    [] <<w, n>> = <<"dataviz", 3>> -> {"viz_local_impala", "kudu_sensors"}
    [] <<w, n>> \in {"dataviz"} \X {4, 5} -> {"viz_local_impala", "viz_dataset"}
    [] OTHER                       -> {}

\* The artefacts whose creation the services refuse when the name is taken:
\* create_schema accepts only 201, nipyapi raises on a second registry client,
\* flow or parameter context of a name, SSB and DataViz answer with an error.
\* The rest is created again (NiFi components), tested for first (buckets,
\* topics) or created IF NOT EXISTS or after a DROP (Kudu, fraud's tables);
\* postgres.execute_sql never looks at psql's return code.
ExclusiveNames == Schemas \cup CdcTables \cup
                  {"reg_client", "flow_sensor", "flow_fraud", "fraud_params", "ssb_kafka",
                   "ssb_kudu", "ssb_sr", "ssb_iot_enriched", "ssb_udfs",
                   "viz_impala", "viz_local_impala"}
=============================================================================
