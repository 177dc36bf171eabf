SPECIFICATION Spec
CONSTANTS
  Clients = {a, b}
  Fields = {f1, f2}
  Password = f1
  None = none
  Kinds = {"bws", "onepassword", "passbolt", "lastpass", "bw", "keeper", "protonpass", "cloudflare", "netlify", "awssm", "scaleway", "gcsm", "infisical", "setec", "aac", "vercel", "railway", "convex", "vault", "fly", "doppler", "file", "pass", "gopass", "keyring", "kubernetes", "awsps", "akv"}
  MaxCommands = 4
  MaxMishaps = 2
INVARIANTS NoDuplicates ReadsAreCurrent
CHECK_DEADLOCK FALSE
