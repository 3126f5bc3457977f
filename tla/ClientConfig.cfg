SPECIFICATION Spec
CONSTANTS
  Headers <- MCHeaders
  ClientHeaders <- MCClientHeaders
  RequestHeaders <- MCRequestHeaders
  Keys = {"k", "l"}
  TlsConfigs <- MCTlsConfigs
  Texts = {"a", "b"}
INVARIANTS
  HeadersAreLive
  AllocationsAreOwned
  RequestsAreAsConfigured
  TrustIsAsConfigured
