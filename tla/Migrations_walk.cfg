\* Any walk through the 24 revisions.
SPECIFICATION SchemaSpec
CONSTANT Filled <- MCFilled
INVARIANTS ScriptsAgree SchemaOfRevision UpgradeSucceeds
PROPERTY UpgradesKeepRows
