SPECIFICATION FairSpec
CONSTANTS
  Builds = {v1, v2}
  Panels <- SomePanels
  Domains = {d1, d2}
  Missing = Missing
  Torn = Torn
  NoProcess = NoProcess
  MaxCerts = 2
INVARIANTS TypeOK RunsWhatIsInstalled CredentialsStay CertificatesAreKnown
PROPERTY ComesUp
