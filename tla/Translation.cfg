SPECIFICATION Spec
CONSTANTS
  Draft <- DraftValue
  Group = {"g"}
  Now = 1
  CompressBodyThreshold = 3
  MaxMessageBodySize = 3
  Digest = {"CRC32", "unknown"}
  Encoding = {"GZIP", "IDENTITY", "OTHER"}
  NanosPerMicro = 2
  MicrosPerSecond = 4
  Moment <- MomentValue
  Response <- ResponseValue
  Dns <- DnsValue
  NoDomain = "no"
  NotMade = NotMade
  CounterRange = 4
  MaxAttempt = 2
  Topic = {t1}
  Tag = {"", "a"}
  Offset = {0, 1}
  Millis = {0, 3}
  MillisPerSecond = 2
  NanosPerMilli = 2
  Naming <- NamingValue
  Setting <- SettingValue
  Found <- FoundValue
  Callback = {"c1"}
  Host = {h1, h2}
  Traced <- TracedValue
  Extra <- ExtraValue
INVARIANTS   RequestsInv  
CHECK_DEADLOCK FALSE
