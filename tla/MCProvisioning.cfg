CONSTANTS
  Tenant = {"davis", "demo"}
  Handle = {"jill", "Jill", "bradley"}
  Norm <- MCNorm
  Name = {"air", "mini", "gateway"}
  Credential = {"a", "b"}
  Token = {t1, t2}
  Specs <- MCSpecs
  GatewayHandle = "bradley"
  MaxDevices = 7
  MaxRequests = 1
  None = None
SPECIFICATION Spec
INVARIANTS ProvisioningTypeOK Provisioned
PROPERTIES RevokedForever TenantsAreSeparate Idempotent HubComesUp GatewayComesUp
CHECK_DEADLOCK FALSE
