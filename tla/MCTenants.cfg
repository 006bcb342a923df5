SPECIFICATION Spec
 
INVARIANT MigratesAfterBackup
PROPERTY DeletingSticks
PROPERTY PasswordStable
PROPERTY TenantsProgress
CHECK_DEADLOCK FALSE
