SPECIFICATION Spec
CONSTANTS
  Users = {alice}
  Tags = {ss, vless}
  Shadowsocks = {ss}
  Placeholder = Placeholder
SYMMETRY Symmetry
INVARIANTS TypeOK Converged NoDrift AlwaysReplaceable
PROPERTY NobodyRelaysUncounted
