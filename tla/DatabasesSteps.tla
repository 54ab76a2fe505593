--------------------------- MODULE DatabasesSteps ----------------------------
(*****************************************************************************)
(* The steps of databases: steps/resource-manager/databases (MariaDB,        *)
(* MySQL, PostgreSQL and SQL), cosmosdb and redis-cache.                     *)
(*****************************************************************************)
EXTENDS StepEffects

-----------------------------------------------------------------------------
\* steps/resource-manager/databases

MariaDBEntities ==
    [SERVER |-> "azure_mariadb_server",
     DATABASE |-> "azure_mariadb_database"]

MariaDBRelationships ==
    [RESOURCE_GROUP_HAS_MARIADB_SERVER |-> GroupHas("azure_mariadb_server"),
     MARIADB_SERVER_HAS_MARIADB_DATABASE |-> <<"azure_mariadb_server", "HAS", "azure_mariadb_database">>]

MySQLEntities ==
    [SERVER |-> "azure_mysql_server",
     DATABASE |-> "azure_mysql_database"]

MySQLRelationships ==
    [RESOURCE_GROUP_HAS_MYSQL_SERVER |-> GroupHas("azure_mysql_server"),
     MYSQL_SERVER_HAS_MYSQL_DATABASE |-> <<"azure_mysql_server", "HAS", "azure_mysql_database">>]

PostgreSQLEntities ==
    [SERVER |-> "azure_postgresql_server",
     DATABASE |-> "azure_postgresql_database",
     FIREWALL_RULE |-> "azure_postgresql_server_firewall_rule"]

PostgreSQLRelationships ==
    [RESOURCE_GROUP_HAS_POSTGRESQL_SERVER |-> GroupHas("azure_postgresql_server"),
     POSTGRESQL_SERVER_HAS_POSTGRESQL_DATABASE |-> <<"azure_postgresql_server", "HAS", "azure_postgresql_database">>,
     POSTGRESQL_SERVER_HAS_FIREWALL_RULE |-> <<"azure_postgresql_server", "HAS", "azure_postgresql_server_firewall_rule">>]

entities ==
    [SERVER |-> "azure_sql_server",
     DATABASE |-> "azure_sql_database",
     FIREWALL_RULE |-> "azure_sql_server_firewall_rule",
     ACTIVE_DIRECTORY_ADMIN |-> "azure_sql_server_active_directory_admin"]

relationships ==
    [RESOURCE_GROUP_HAS_SQL_SERVER |-> GroupHas("azure_sql_server"),
     SQL_SERVER_HAS_SQL_DATABASE |-> <<"azure_sql_server", "HAS", "azure_sql_database">>,
     SQL_SERVER_HAS_FIREWALL_RULE |-> <<"azure_sql_server", "HAS", "azure_sql_server_firewall_rule">>,
     SQL_SERVER_HAS_AD_ADMIN |-> <<"azure_sql_server", "HAS", "azure_sql_server_active_directory_admin">>]
-----------------------------------------------------------------------------
DiagnosticsOf(type) == Iterates({type}) (+) Diagnostics(type)

\* An error of the databases of one server is logged and forgotten.
ServersAndDatabases(server, database) ==
    Account (+) InGroup(server) (+) Adds({database}) (+) Relates({<<server, "HAS", database>>})

fetchMariaDBDatabases == ServersAndDatabases("azure_mariadb_server", "azure_mariadb_database")

fetchMariaDBDatabasesDiagnosticSettings == DiagnosticsOf("azure_mariadb_server")

fetchMySQLDatabases == ServersAndDatabases("azure_mysql_server", "azure_mysql_database")

fetchMySQLDatabasesDiagnosticSettings == DiagnosticsOf("azure_mysql_server")

fetchPostgreSQLServers == Account (+) InGroup("azure_postgresql_server")

fetchPostgreSQLServersDiagnosticSettings == DiagnosticsOf("azure_postgresql_server")

fetchPostgreSQLDatabases ==
    Account (+) Under("azure_postgresql_server", "HAS", "azure_postgresql_database")

fetchPostgreSqlServerFirewallRules ==
    Under("azure_postgresql_server", "HAS", "azure_postgresql_server_firewall_rule")

fetchSQLServers == Account (+) InGroup("azure_sql_server")

fetchSQLServerDiagnosticSettings == DiagnosticsOf("azure_sql_server")

fetchSQLDatabases == Account (+) Under("azure_sql_server", "HAS", "azure_sql_database")

fetchSQLServerFirewallRules ==
    Under("azure_sql_server", "HAS", "azure_sql_server_firewall_rule")

fetchSQLServerActiveDirectoryAdmins ==
    Under("azure_sql_server", "HAS", "azure_sql_server_active_directory_admin")
-----------------------------------------------------------------------------
postgreSqlSteps == {
    Step("rm-database-postgresql-servers", "databases",
         {"ad-account", "rm-resources-resource-groups"}, fetchPostgreSQLServers,
         {PostgreSQLEntities.SERVER},
         {PostgreSQLRelationships.RESOURCE_GROUP_HAS_POSTGRESQL_SERVER}),
    Step("rm-database-postgresql-servers-diagnostic-settings", "databases",
         {"rm-database-postgresql-servers", "rm-storage-resources"},
         fetchPostgreSQLServersDiagnosticSettings, {"azure_diagnostic_setting"},
         DiagnosticRelationships),
    Step("rm-database-postgresql-databases", "databases",
         {"ad-account", "rm-database-postgresql-servers"}, fetchPostgreSQLDatabases,
         {PostgreSQLEntities.DATABASE},
         {PostgreSQLRelationships.POSTGRESQL_SERVER_HAS_POSTGRESQL_DATABASE}),
    Step("rm-database-postgresql-server-firewall-rules", "databases",
         {"rm-database-postgresql-servers"}, fetchPostgreSqlServerFirewallRules,
         {PostgreSQLEntities.FIREWALL_RULE},
         {PostgreSQLRelationships.POSTGRESQL_SERVER_HAS_FIREWALL_RULE})}

sqlSteps == {
    Step("rm-database-sql-servers", "databases", {"ad-account", "rm-resources-resource-groups"},
         fetchSQLServers, {entities.SERVER}, {relationships.RESOURCE_GROUP_HAS_SQL_SERVER}),
    Step("rm-sql-server-diagnostic-settings", "databases",
         {"ad-account", "rm-database-sql-servers", "rm-storage-resources"},
         fetchSQLServerDiagnosticSettings, {"azure_diagnostic_setting"},
         DiagnosticRelationships),
    Step("rm-database-sql-databases", "databases", {"ad-account", "rm-database-sql-servers"},
         fetchSQLDatabases, {entities.DATABASE}, {relationships.SQL_SERVER_HAS_SQL_DATABASE}),
    Step("rm-database-sql-server-firewall-rules", "databases", {"rm-database-sql-servers"},
         fetchSQLServerFirewallRules, {entities.FIREWALL_RULE},
         {relationships.SQL_SERVER_HAS_FIREWALL_RULE}),
    Step("rm-database-sql-server-active-directory-admins", "databases",
         {"rm-database-sql-servers"}, fetchSQLServerActiveDirectoryAdmins,
         {entities.ACTIVE_DIRECTORY_ADMIN}, {relationships.SQL_SERVER_HAS_AD_ADMIN})}

databaseSteps == {
    Step("rm-database-mariadb-databases", "databases",
         {"ad-account", "rm-resources-resource-groups"}, fetchMariaDBDatabases,
         {MariaDBEntities.SERVER, MariaDBEntities.DATABASE},
         {MariaDBRelationships.RESOURCE_GROUP_HAS_MARIADB_SERVER,
          MariaDBRelationships.MARIADB_SERVER_HAS_MARIADB_DATABASE}),
    Step("rm-database-mariadb-databases-diagnostic-settings", "databases",
         {"rm-database-mariadb-databases", "rm-storage-resources"},
         fetchMariaDBDatabasesDiagnosticSettings, {"azure_diagnostic_setting"},
         DiagnosticRelationships),
    Step("rm-database-mysql-databases", "databases",
         {"ad-account", "rm-resources-resource-groups"}, fetchMySQLDatabases,
         {MySQLEntities.SERVER, MySQLEntities.DATABASE},
         {MySQLRelationships.RESOURCE_GROUP_HAS_MYSQL_SERVER,
          MySQLRelationships.MYSQL_SERVER_HAS_MYSQL_DATABASE}),
    Step("rm-database-mysql-databases-diagnostic-settings", "databases",
         {"rm-database-mysql-databases", "rm-storage-resources"},
         fetchMySQLDatabasesDiagnosticSettings, {"azure_diagnostic_setting"},
         DiagnosticRelationships)}
    \cup postgreSqlSteps \cup sqlSteps
-----------------------------------------------------------------------------
\* steps/resource-manager/cosmosdb

cosmosDBEntities ==
    [COSMOSDB_ACCOUNT |-> "azure_cosmosdb_account",
     COSMOSDB_SQL_DATABASE |-> "azure_cosmosdb_sql_database"]

cosmosDBRelationships ==
    [COSMOSDB_HAS_SQL_DATABASE |-> <<"azure_cosmosdb_account", "HAS", "azure_cosmosdb_sql_database">>]
-----------------------------------------------------------------------------
fetchCosmosDBSqlDatabases ==
    Account (+) InGroup("azure_cosmosdb_account") (+) Adds({"azure_cosmosdb_sql_database"})
            (+) Relates({<<"azure_cosmosdb_account", "HAS", "azure_cosmosdb_sql_database">>})
-----------------------------------------------------------------------------
cosmosdbSteps == {
    Step("rm-cosmosdb-sql-databases", "cosmosdb",
         {"ad-account", "rm-resources-resource-groups"}, fetchCosmosDBSqlDatabases,
         {cosmosDBEntities.COSMOSDB_ACCOUNT, cosmosDBEntities.COSMOSDB_SQL_DATABASE},
         {cosmosDBRelationships.COSMOSDB_HAS_SQL_DATABASE, GroupHas("azure_cosmosdb_account")})}
-----------------------------------------------------------------------------
\* steps/resource-manager/redis-cache

RedisCacheEntities ==
    [CACHE |-> "azure_redis_cache",
     FIREWALL_RULE |-> "azure_firewall_rule"]

RedisCacheRelationships ==
    [RESOURCE_GROUP_HAS_REDIS_CACHE |-> GroupHas("azure_redis_cache"),
     REDIS_CACHE_HAS_FIREWALL_RULE |-> <<"azure_redis_cache", "HAS", "azure_firewall_rule">>,
     REDIS_CACHE_IS_LINKED_TO_REDIS_CACHE |-> <<"azure_redis_cache", "CONNECTS", "azure_redis_cache">>]
-----------------------------------------------------------------------------
fetchRedisCaches ==
    Account (+) InEachGroup("azure_redis_cache")

fetchRedisFirewallRules ==
    Account (+) Under("azure_redis_cache", "HAS", "azure_firewall_rule")

\* Of the linked servers in the secondary role only.
fetchRedisLinkedServers ==
    Account (+) LinksTo("azure_redis_cache", "CONNECTS", "azure_redis_cache")
-----------------------------------------------------------------------------
redisCacheSteps == {
    Step("rm-redis-caches", "redis_cache", {"ad-account", "rm-resources-resource-groups"},
         fetchRedisCaches, {RedisCacheEntities.CACHE},
         {RedisCacheRelationships.RESOURCE_GROUP_HAS_REDIS_CACHE}),
    Step("rm-redis-firewall-rules", "redis_cache", {"ad-account", "rm-redis-caches"},
         fetchRedisFirewallRules, {RedisCacheEntities.FIREWALL_RULE},
         {RedisCacheRelationships.REDIS_CACHE_HAS_FIREWALL_RULE}),
    Step("rm-redis-linked-servers", "redis_cache", {"ad-account", "rm-redis-caches"},
         fetchRedisLinkedServers, {},
         {RedisCacheRelationships.REDIS_CACHE_IS_LINKED_TO_REDIS_CACHE})}
=============================================================================
