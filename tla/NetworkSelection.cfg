CONSTANTS
    BootstrapDefaultPort = 9732
    NoNetwork = NoNetwork
    NoConfig = NoConfig
    NoNotice = NoNotice
SPECIFICATION Spec
INVARIANTS
    NameSelectsItsNetwork
    DefaultBootstrapParses
    NoticeRecommendsLiveNetwork
