-------------------------------- MODULE CmTemplate --------------------------------
(***************************************************************************)
(* cm_template.py: the services of the cluster template are those asked for *)
(* and all they require, by the file templates/dependencies.                *)
(***************************************************************************)
Service(name, requires) == [name |-> name, requires |-> requires]

\* templates/dependencies; the pseudo-service "all" is always considered.
Dependencies == {
  Service("all", {"BASE"}), Service("ATLAS", {"HDFS", "HBASE", "KAFKA", "SOLR"}),
  Service("CDSW", {"SPARK_ON_YARN", "YARN"}), Service("CRUISE_CONTROL", {"ZOOKEEPER", "KAFKA"}),
  Service("DAS", {"TEZ", "HS2"}), Service("FLINK", {"HDFS", "YARN", "ZOOKEEPER"}),
  Service("HBASE", {"ZOOKEEPER"}), Service("HIVE", {"YARN"}), Service("IMPALA", {"HIVE"}),
  Service("KAFKA", {"ZOOKEEPER"}), Service("LIVY", {"YARN", "SPARK_ON_YARN"}),
  Service("NIFI", {"ZOOKEEPER"}), Service("OZONE", {"HDFS"}),
  Service("PHOENIX", {"ZOOKEEPER", "HDFS", "HBASE"}), Service("QUEUEMANAGER", {"ZOOKEEPER"}),
  Service("RANGER", {"SOLR", "HDFS"}), Service("SPARK_ON_YARN", {"YARN"}),
  Service("SMM", {"KAFKA"}), Service("SRM", {"KAFKA"}),
  Service("ZEPPELIN", {"YARN", "HDFS", "SPARK_ON_YARN"})}

RequiredBy(services) == UNION {d.requires : d \in {e \in Dependencies : e.name \in services}}

\* One turn of the loop of fix_dependencies: what the services so far require and
\* is not among them.
Missing(services) == RequiredBy(services \cup {"all"}) \ services
=============================================================================
