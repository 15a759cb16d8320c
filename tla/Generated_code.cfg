SPECIFICATION PluginSpec
CONSTANT Requests <- AllRequests
INVARIANT NamesMeanWhatWasAsked ResponseIsWhole ReachedByPackage CallsReachMethods GeneratedAsAsked
INVARIANT ReflectionMeansDescriptor InterfaceIsChecked OptionsAreTheirs
CHECK_DEADLOCK FALSE
