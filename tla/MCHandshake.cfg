CONSTANTS
  Scripts <- MCScripts
  Flags <- MCFlags
  maxMessageLength <- MCMaxMessageLength
  Limits <- MCLimits
SPECIFICATION Spec
\* A closed connection stays closed.
CHECK_DEADLOCK FALSE
INVARIANTS WholeMessages EncryptedOnceAgreed SettingsImposed
PROPERTY RequestsAnswered
