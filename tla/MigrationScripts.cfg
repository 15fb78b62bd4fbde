SPECIFICATION ScriptsSpec
INVARIANTS
    ScriptsRun
    SchemaIsOfVersions
